---- MODULE Spec2Model ----
(***************************************************************************)
(* docker-tool: a watcher that keeps nginx upstream configuration files in *)
(* step with the running Docker containers.                                *)
(*                                                                         *)
(*   internal/config/config.go    declared configuration, service matcher  *)
(*   internal/watcher/watcher.go  event loop, rescan, address resolution   *)
(*   internal/nginx/manager.go    upstream registry and its artifacts      *)
(*                                                                         *)
(* Strings that the code inspects character-wise are sequences of tokens   *)
(* (a container name is <<"/", "my-api">>).  A nat.Port "33000/tcp" is the *)
(* record [num |-> 33000, proto |-> "tcp"]; the empty nat.Port "" is       *)
(* EmptyPort.  A file's content is a record: Absent (no file), Stale (a    *)
(* file left by an earlier run), EmptyFile (zero bytes) or what the        *)
(* template emits from its data.                                           *)
(***************************************************************************)
EXTENDS Integers, Sequences, FiniteSets, TLC

VARIABLES
    config,         \* *config.Config shared by Watcher and Manager
    httpConfigs,    \* Manager.httpConfigs   : service name -> HTTPConfig
    streamConfigs,  \* Manager.streamConfigs : service name -> StreamConfig
    disk,           \* <<directory, service name>> -> content of <name>.conf
    tplOK,          \* the template files can be loaded, parsed and executed
    ioOK,           \* the configuration directories can be written
    containers,     \* Docker: container id -> what ContainerInspect reports
    queue,          \* Docker event stream: events not yet received
    ops,            \* lifecycle operations the container runtime has performed
    th,             \* goroutines: the event loop "ev" and one rescan unit per container
    rescan,         \* "pending" until checkExistingContainers has listed the containers
    lastOp,         \* arguments and outcome of the last UpdateService call
    refMap,         \* reference map (kind, service) -> (address -> port) replayed beside the registry
    res,            \* address resolver harness: a container, a service and the address resolved
    mutex,          \* Manager.mutex: the goroutine that holds it, "" when it is free
    cs,             \* per goroutine: how far its UpdateService call has got inside the lock
    stream,         \* the event subscription: "open", "error" (an error waits on errStream) or
                    \* "closed", and the number of errors it has reported
    ctx,            \* the context of main: "live" or "cancelled"
    cfgFile,        \* the declared-configuration file: its content and modification time
    poll,           \* watchConfigFile: where the poller is, how its last load went (flip
                    \* changes with every load), and the configuration being copied
    recovered,      \* rescan units whose panic the deferred recover() caught
    mainPc          \* where main is: "initLogger", "load", "new", "start", then "running"
                    \* (waiting for a signal), or "fatal" after log.Fatalf

mgrVars == <<httpConfigs, streamConfigs, disk, lastOp, refMap>>

lockVars == <<mutex, cs>>

loopVars == <<stream, ctx, mainPc>>

pollVars == <<cfgFile, poll>>

\* what the registry operations, the resolver and the container runtime leave alone
sideVars == <<lockVars, loopVars, pollVars, recovered>>

envVars == <<tplOK, ioOK>>

dockerVars == <<containers, queue, ops>>

vars == <<config, mgrVars, envVars, dockerVars, th, rescan, res, sideVars>>

(***************************************************************************)
(* Bounds of the model.                                                    *)
(***************************************************************************)
\* lifecycle operations (start, stop, rename, remove) the runtime performs in a run
MaxDockerOps == 2

\* errors the event stream reports in a run
MaxStreamErrors == 2

\* times the declared-configuration file is rewritten in a run
MaxEdits == 2

(***************************************************************************)
(* Values.                                                                 *)
(***************************************************************************)
EmptyPort == [num |-> 0, proto |-> ""]

Absent == [t |-> "absent"]

Stale == [t |-> "stale"]

EmptyFile == [t |-> "empty"]

\* nat.Port(fmt.Sprintf("%d/tcp", n))
MkPort(n, proto) == [num |-> n, proto |-> proto]

\* a map without key k (Go's delete(m, k))
MapDelete(m, k) == [x \in (DOMAIN m) \ {k} |-> m[x]]

\* a map with key k set to v (Go's m[k] = v)
MapPut(m, k, v) == [x \in (DOMAIN m) \cup {k} |-> IF x = k THEN v ELSE m[x]]

EmptyMap == [x \in {} |-> 0]

(***************************************************************************)
(* internal/config/config.go                                               *)
(***************************************************************************)
NoService ==
    [Name |-> "", Type |-> "", ContainerName |-> <<>>, Domain |-> "", Path |-> "",
     Port |-> 0, ListenPort |-> 0, ContainerPort |-> 0, UpstreamName |-> "",
     EnableSNI |-> FALSE]

\* README.md: the http service of the example configuration
ApiService(containerName) ==
    [Name |-> "api", Type |-> "http", ContainerName |-> containerName,
     Domain |-> "api.example.com", Path |-> "/", Port |-> 9000, ListenPort |-> 0,
     ContainerPort |-> 0, UpstreamName |-> "api_backend", EnableSNI |-> FALSE]

\* README.md: the stream service of the example configuration, with or without SNI routing
DbService(containerName, sni) ==
    [Name |-> "db", Type |-> "stream", ContainerName |-> containerName,
     Domain |-> "", Path |-> "", Port |-> 0, ListenPort |-> 3306,
     ContainerPort |-> 9000, UpstreamName |-> "db_backend", EnableSNI |-> sni]

\* Config{Global, Services, lastMod}
DeclaredConfig(services) ==
    [Global |-> [NginxConfigDir |-> "conf.d", StreamConfigDir |-> "stream.d",
                 NginxReloadCmd |-> "nginx -s reload", HostIP |-> "192.168.31.100"],
     Services |-> services, lastMod |-> 0]

\* The declared configurations considered: the containers of this host are
\* named my-app, which is declared as the http service, or as the stream
\* service without or with SNI routing; the other service names a container
\* this host does not run.
Configs ==
    {DeclaredConfig(<<ApiService(<<"my-app">>), DbService(<<"/", "my-db">>, FALSE)>>)}
    \cup {DeclaredConfig(<<ApiService(<<"my-api">>), DbService(<<"/", "my-app">>, sni)>>)
             : sni \in BOOLEAN}

\* <NginxConfigDir>/api.conf and <StreamConfigDir>/db.conf
Paths == {<<"conf.d", "api">>, <<"stream.d", "db">>}

\* strings.TrimPrefix(s, "/")
TrimPrefix(s) == IF Len(s) > 0 /\ s[1] = "/" THEN Tail(s) ELSE s

\* a variant that accepts every service
ValidateService_AcceptAll(service) == TRUE

\* (c *Config) ValidateService: TRUE when it returns nil
ValidateService(service) ==
    /\ service.Name # ""
    /\ service.Type \in {"http", "stream"}
    /\ service.ContainerName # <<>>
    /\ service.UpstreamName # ""
    /\ (service.Type = "http" => service.Domain # "" /\ service.Port # 0)
    /\ (service.Type = "stream" => service.ListenPort # 0 /\ service.ContainerPort # 0)

\* a variant that strips the "/" of the runtime's name only
GetServiceByContainerName_RuntimeOnly(c, containerName) ==
    LET normalizedName == TrimPrefix(containerName)
        hits == {i \in 1..Len(c.Services) : c.Services[i].ContainerName = normalizedName}
    IN IF hits = {} THEN NoService
       ELSE c.Services[CHOOSE i \in hits : \A j \in hits : i <= j]

\* (c *Config) GetServiceByContainerName: the first declared service that matches, or NoService
GetServiceByContainerName(c, containerName) ==
    LET normalizedName == TrimPrefix(containerName)
        hits == {i \in 1..Len(c.Services) :
                    TrimPrefix(c.Services[i].ContainerName) = normalizedName}
    IN IF hits = {} THEN NoService
       ELSE c.Services[CHOOSE i \in hits : \A j \in hits : i <= j]

(***************************************************************************)
(* internal/watcher/watcher.go: address resolution                         *)
(***************************************************************************)
\* getContainerIP: the set of values it can return.  Go ranges over the
\* Networks map in an unspecified order, so with several non-bridge
\* networks that report an IP any one of them may be returned.
getContainerIP(c, container) ==
    LET nets == container.Networks
        other == {n \in DOMAIN nets : n # "bridge" /\ nets[n] # ""}
    IN IF "host" \in DOMAIN nets THEN {c.Global.HostIP}
       ELSE IF other # {} THEN {nets[n] : n \in other}
       ELSE IF "bridge" \in DOMAIN nets THEN {c.Global.HostIP}
       ELSE {""}

\* portBindings, exists := Ports[port]; exists && len(portBindings) > 0
HasBinding(container, port) ==
    port \in DOMAIN container.Ports /\ Len(container.Ports[port]) > 0

\* getContainerPort: the declared target port of the service
targetPort(service) ==
    IF service.Type = "http" THEN service.Port
    ELSE IF service.Type = "stream" THEN service.ContainerPort
    ELSE 0

\* getContainerPort
getContainerPort(container, service) ==
    LET tcp == MkPort(targetPort(service), "tcp")
        udp == MkPort(targetPort(service), "udp")
        nets == container.Networks
    IN IF "host" \in DOMAIN nets THEN tcp
       ELSE IF "bridge" \in DOMAIN nets /\ HasBinding(container, tcp)
            THEN MkPort(container.Ports[tcp][1], "tcp")
       ELSE IF "bridge" \in DOMAIN nets /\ HasBinding(container, udp)
            THEN MkPort(container.Ports[udp][1], "udp")
       ELSE IF tcp \in DOMAIN container.Ports THEN tcp
       ELSE IF udp \in DOMAIN container.Ports THEN udp
       ELSE tcp

(***************************************************************************)
(* internal/nginx/manager.go: the upstream registry                        *)
(***************************************************************************)
\* the index of the first server with this IP, 0 when there is none
FirstIndex(upstream, ip) ==
    LET hits == {i \in 1..Len(upstream) : upstream[i].IP = ip}
    IN IF hits = {} THEN 0 ELSE CHOOSE i \in hits : \A j \in hits : i <= j

\* a slice without its i-th element: append(s[:i], s[i+1:]...)
RemoveAt(upstream, i) ==
    SubSeq(upstream, 1, i - 1) \o SubSeq(upstream, i + 1, Len(upstream))

\* a variant that appends without looking for the IP
updateUpstreamServer_Append(upstream, server) ==
    Append(upstream, server)

\* a variant that drops the old server and appends the new one
updateUpstreamServer_MoveToEnd(upstream, server) ==
    LET i == FirstIndex(upstream, server.IP)
    IN IF i # 0 THEN Append(RemoveAt(upstream, i), server) ELSE Append(upstream, server)

\* updateUpstreamServer: replace the first server with the same IP in place, else append
updateUpstreamServer(upstream, server) ==
    LET i == FirstIndex(upstream, server.IP)
    IN IF i # 0 THEN [upstream EXCEPT ![i] = server] ELSE Append(upstream, server)

\* a variant that drops the last server when the IP is a member
removeUpstreamServer_Last(upstream, ip) ==
    IF FirstIndex(upstream, ip) # 0 THEN SubSeq(upstream, 1, Len(upstream) - 1) ELSE upstream

\* a variant that drops the first server when the IP is not a member
removeUpstreamServer_FirstWhenUnknown(upstream, ip) ==
    LET i == FirstIndex(upstream, ip)
    IN IF i # 0 THEN RemoveAt(upstream, i)
       ELSE IF upstream # <<>> THEN Tail(upstream) ELSE upstream

\* removeUpstreamServer: drop the first server with this IP, if any
removeUpstreamServer(upstream, ip) ==
    LET i == FirstIndex(upstream, ip)
    IN IF i # 0 THEN RemoveAt(upstream, i) ELSE upstream

\* {{ range .Upstream }} server {{ .IP }}:{{ .Port.Port }}; {{ end }}
Servers(upstream) == [i \in 1..Len(upstream) |-> <<upstream[i].IP, upstream[i].Port.num>>]

\* buildHTTPConfigContent: the template's output, "" when the template cannot be
\* loaded, parsed or executed (tpl = FALSE)
buildHTTPConfigContent(httpConfig, tpl) ==
    IF ~tpl THEN EmptyFile
    ELSE [t |-> "http", ServiceName |-> httpConfig.ServiceName, Domain |-> httpConfig.Domain,
          Path |-> httpConfig.Path, Servers |-> Servers(httpConfig.Upstream)]

\* buildStreamConfigContent: the stream template, or the SNI template when EnableSNI
buildStreamConfigContent(streamConfig, tpl) ==
    IF ~tpl THEN EmptyFile
    ELSE [t |-> IF streamConfig.EnableSNI THEN "stream-sni" ELSE "stream",
          ServiceName |-> streamConfig.ServiceName, ListenPort |-> streamConfig.ListenPort,
          Servers |-> Servers(streamConfig.Upstream)]

\* The registry operators below take and return the part of the Manager they
\* touch: r = [configs |-> the map of their kind, disk |-> the files], and
\* return it with err (an error was returned) and render ("ok", "failed",
\* or "none" when nothing was rendered).  With io = FALSE os.WriteFile
\* fails before it writes and os.Remove of an existing file fails.

\* a variant that drops the entry and leaves the file
deleteConfig_KeepFile(r, dir, serviceName, io) ==
    [configs |-> MapDelete(r.configs, serviceName), disk |-> r.disk,
     err |-> FALSE, render |-> "none"]

\* a variant for which a file that does not exist is an error
deleteConfig_NotExistIsError(r, dir, serviceName, io) ==
    IF r.disk[<<dir, serviceName>>] = Absent \/ ~io
    THEN [configs |-> r.configs, disk |-> r.disk, err |-> TRUE, render |-> "none"]
    ELSE [configs |-> MapDelete(r.configs, serviceName),
          disk |-> [r.disk EXCEPT ![<<dir, serviceName>>] = Absent],
          err |-> FALSE, render |-> "none"]

\* deleteHTTPConfig / deleteStreamConfig: remove <dir>/<name>.conf, a file that
\* does not exist being no error, then drop the in-memory entry
deleteConfig(r, dir, serviceName, io) ==
    IF r.disk[<<dir, serviceName>>] # Absent /\ ~io
    THEN [configs |-> r.configs, disk |-> r.disk, err |-> TRUE, render |-> "none"]
    ELSE [configs |-> MapDelete(r.configs, serviceName),
          disk |-> [r.disk EXCEPT ![<<dir, serviceName>>] = Absent],
          err |-> FALSE, render |-> "none"]

\* os.WriteFile(filepath, []byte(configContent), 0644)
writeConfig(r, dir, serviceName, content, io) ==
    IF ~io
    THEN [configs |-> r.configs, disk |-> r.disk, err |-> TRUE,
          render |-> IF content = EmptyFile THEN "failed" ELSE "ok"]
    ELSE [configs |-> r.configs, disk |-> [r.disk EXCEPT ![<<dir, serviceName>>] = content],
          err |-> FALSE, render |-> IF content = EmptyFile THEN "failed" ELSE "ok"]

\* a variant that writes the artifact of an entry without upstream servers
\* instead of deleting it and dropping the entry
generateHTTPConfig_AlwaysWrite(r, c, serviceName, tpl, io) ==
    writeConfig(r, c.Global.NginxConfigDir, serviceName,
                buildHTTPConfigContent(r.configs[serviceName], tpl), io)

\* generateHTTPConfig
generateHTTPConfig(r, c, serviceName, tpl, io) ==
    LET httpConfig == r.configs[serviceName]
    IN IF Len(httpConfig.Upstream) = 0
       THEN deleteConfig(r, c.Global.NginxConfigDir, serviceName, io)
       ELSE writeConfig(r, c.Global.NginxConfigDir, serviceName,
                        buildHTTPConfigContent(httpConfig, tpl), io)

\* generateStreamConfig: an SNI service is written even without upstream servers
generateStreamConfig(r, c, serviceName, tpl, io) ==
    LET streamConfig == r.configs[serviceName]
    IN IF Len(streamConfig.Upstream) = 0 /\ ~streamConfig.EnableSNI
       THEN deleteConfig(r, c.Global.StreamConfigDir, serviceName, io)
       ELSE writeConfig(r, c.Global.StreamConfigDir, serviceName,
                        buildStreamConfigContent(streamConfig, tpl), io)

\* the upstream list after the add-or-update / remove branch of update*Service
NewUpstream(upstream, containerIP, containerPort) ==
    IF containerIP # "" /\ containerPort # EmptyPort
    THEN updateUpstreamServer(upstream, [IP |-> containerIP, Port |-> containerPort])
    ELSE removeUpstreamServer(upstream, containerIP)

\* updateHTTPService, up to generateHTTPConfig: the entry of the service,
\* created when there is none, with its upstream list updated
putHTTPServer(configs, service, containerIP, containerPort) ==
    LET httpConfig == IF service.Name \in DOMAIN configs THEN configs[service.Name]
                      ELSE [ServiceName |-> service.Name, Domain |-> service.Domain,
                            Path |-> service.Path, Upstream |-> <<>>]
        updated == [httpConfig EXCEPT
                       !.Upstream = NewUpstream(@, containerIP, containerPort)]
    IN MapPut(configs, service.Name, updated)

\* a variant that puts the entries back as they were when the artifact
\* could not be written or deleted
updateHTTPService_Rollback(r, c, service, containerIP, containerPort, tpl, io) ==
    LET r1 == [r EXCEPT !.configs = putHTTPServer(@, service, containerIP, containerPort)]
        o == generateHTTPConfig(r1, c, service.Name, tpl, io)
    IN IF o.err THEN [o EXCEPT !.configs = r.configs] ELSE o

\* updateHTTPService
updateHTTPService(r, c, service, containerIP, containerPort, tpl, io) ==
    LET r1 == [r EXCEPT !.configs = putHTTPServer(@, service, containerIP, containerPort)]
    IN generateHTTPConfig(r1, c, service.Name, tpl, io)

\* updateStreamService, up to generateStreamConfig
putStreamServer(configs, service, containerIP, containerPort) ==
    LET streamConfig == IF service.Name \in DOMAIN configs THEN configs[service.Name]
                        ELSE [ServiceName |-> service.Name, ListenPort |-> service.ListenPort,
                              Upstream |-> <<>>, EnableSNI |-> service.EnableSNI]
        updated == [streamConfig EXCEPT
                       !.Upstream = NewUpstream(@, containerIP, containerPort)]
    IN MapPut(configs, service.Name, updated)

\* updateStreamService
updateStreamService(r, c, service, containerIP, containerPort, tpl, io) ==
    LET r1 == [r EXCEPT !.configs = putStreamServer(@, service, containerIP, containerPort)]
    IN generateStreamConfig(r1, c, service.Name, tpl, io)

\* the upstream list the registry holds for a service, <<>> when it has no entry
UpstreamOf(h, s, type, name) ==
    IF type = "http" /\ name \in DOMAIN h THEN h[name].Upstream
    ELSE IF type = "stream" /\ name \in DOMAIN s THEN s[name].Upstream
    ELSE <<>>

\* whether the registry holds an entry for a service
HasEntry(h, s, type, name) ==
    \/ type = "http" /\ name \in DOMAIN h
    \/ type = "stream" /\ name \in DOMAIN s

\* the path of a service's artifact: <name>.conf under the directory of its kind
PathOf(c, type, name) ==
    <<IF type = "http" THEN c.Global.NginxConfigDir ELSE c.Global.StreamConfigDir, name>>

\* UpdateService, from m.mutex.Lock() to the deferred Unlock: the new maps and
\* files, whether an error was returned and what was rendered
UpdateService(h, s, d, c, service, containerIP, containerPort, tpl, io) ==
    IF service.Type = "http"
    THEN LET o == updateHTTPService([configs |-> h, disk |-> d], c, service,
                                    containerIP, containerPort, tpl, io)
         IN [httpConfigs |-> o.configs, streamConfigs |-> s, disk |-> o.disk,
             err |-> o.err, render |-> o.render]
    ELSE IF service.Type = "stream"
    THEN LET o == updateStreamService([configs |-> s, disk |-> d], c, service,
                                      containerIP, containerPort, tpl, io)
         IN [httpConfigs |-> h, streamConfigs |-> o.configs, disk |-> o.disk,
             err |-> o.err, render |-> o.render]
    ELSE [httpConfigs |-> h, streamConfigs |-> s, disk |-> d, err |-> TRUE, render |-> "none"]

(***************************************************************************)
(* Goroutines.  A goroutine that is about to call UpdateService is at pc    *)
(* "update" with the arguments of the call; a rescan unit that has not yet *)
(* inspected its container is at "start".                                  *)
(***************************************************************************)
CIDs == {"c1", "c2"}

Threads == {"ev"} \cup CIDs

Idle == [pc |-> "idle", act |-> "", cid |-> "", svc |-> NoService, ip |-> "", port |-> EmptyPort]

\* the record of a call: its arguments, the upstream list, entry and file it
\* found, whether it returned an error, what it rendered, and whether the
\* caller went on to run the reload command
NoOp == [name |-> "", type |-> "", ip |-> "", port |-> EmptyPort, act |-> "",
         before |-> <<>>, entry |-> FALSE, file |-> Absent,
         err |-> FALSE, render |-> "none", reload |-> FALSE]

\* container = NoContainer stands for the nil that a stop passes
NoContainer == [Name |-> <<>>, State |-> "", Networks |-> EmptyMap, Ports |-> EmptyMap]

\* a variant that goes on to UpdateService whatever was resolved
updateNginxConfig_NoCheck(c, service, container, act, id) ==
    IF container = NoContainer
    THEN {[pc |-> "update", act |-> act, cid |-> id, svc |-> service,
           ip |-> "", port |-> EmptyPort]}
    ELSE {[pc |-> "update", act |-> act, cid |-> id, svc |-> service,
           ip |-> containerIP, port |-> getContainerPort(container, service)]
             : containerIP \in getContainerIP(c, container)}

\* updateNginxConfig up to its call of UpdateService: the goroutine's next position
updateNginxConfig(c, service, container, act, id) ==
    IF container = NoContainer
    THEN {[pc |-> "update", act |-> act, cid |-> id, svc |-> service,
           ip |-> "", port |-> EmptyPort]}
    ELSE {IF containerIP = "" \/ getContainerPort(container, service) = EmptyPort
          THEN Idle
          ELSE [pc |-> "update", act |-> act, cid |-> id, svc |-> service,
                ip |-> containerIP, port |-> getContainerPort(container, service)]
             : containerIP \in getContainerIP(c, container)}

\* handleContainerStart and handleContainerRename (the same code): inspect,
\* match, validate, then updateNginxConfig(service, container)
handleContainerStart(c, ctrs, act, id) ==
    IF ctrs[id].State = "removed" THEN {Idle}
    ELSE LET service == GetServiceByContainerName(c, ctrs[id].Name)
         IN IF service = NoService THEN {Idle}
            ELSE IF ~ValidateService(service) THEN {Idle}
            ELSE updateNginxConfig(c, service, ctrs[id], act, id)

\* handleContainerStop: inspect, match, validate, then updateNginxConfig(service, nil)
handleContainerStop(c, ctrs, act, id) ==
    IF ctrs[id].State = "removed" THEN {Idle}
    ELSE LET service == GetServiceByContainerName(c, ctrs[id].Name)
         IN IF service = NoService THEN {Idle}
            ELSE IF ~ValidateService(service) THEN {Idle}
            ELSE updateNginxConfig(c, service, NoContainer, act, id)

\* a variant that takes the renamed container out of its service
handleContainerRename_Cleanup(c, ctrs, act, id) ==
    handleContainerStop(c, ctrs, act, id)

\* handleContainerRename: inspect, match, validate, then updateNginxConfig
\* with the container
handleContainerRename(c, ctrs, act, id) ==
    IF ctrs[id].State = "removed" THEN {Idle}
    ELSE LET service == GetServiceByContainerName(c, ctrs[id].Name)
         IN IF service = NoService THEN {Idle}
            ELSE IF ~ValidateService(service) THEN {Idle}
            ELSE updateNginxConfig(c, service, ctrs[id], act, id)

\* handleEvent
handleEvent(c, ctrs, event) ==
    IF event.Action = "start" THEN handleContainerStart(c, ctrs, event.Action, event.ID)
    ELSE IF event.Action \in {"stop", "die"}
         THEN handleContainerStop(c, ctrs, event.Action, event.ID)
    ELSE IF event.Action = "rename"
         THEN handleContainerRename(c, ctrs, event.Action, event.ID)
    ELSE {Idle}

\* startEventStream: case event := <-eventStream: w.handleEvent(event)
EvReceive ==
    /\ th["ev"].pc = "idle"
    /\ queue # <<>>
    /\ \E next \in handleEvent(config, containers, Head(queue)) :
          th' = [th EXCEPT !["ev"] = next]
    /\ queue' = Tail(queue)
    /\ UNCHANGED <<config, mgrVars, envVars, containers, ops, rescan, res, sideVars>>

\* a variant that stops after the first running container
spawnUnits_FirstOnly(threads, ctrs) ==
    [t \in Threads |->
        IF t \in CIDs /\ ctrs[t].State = "running"
           /\ t = CHOOSE d \in CIDs : ctrs[d].State = "running"
        THEN [Idle EXCEPT !.pc = "start", !.act = "rescan", !.cid = t]
        ELSE threads[t]]

\* for _, container := range containers: go func(containerID) for each running one
spawnUnits(threads, ctrs) ==
    [t \in Threads |->
        IF t \in CIDs /\ ctrs[t].State = "running"
        THEN [Idle EXCEPT !.pc = "start", !.act = "rescan", !.cid = t]
        ELSE threads[t]]

\* checkExistingContainers: one goroutine per container that ContainerList
\* reports as running; none when the list call fails
CheckExistingContainers ==
    /\ rescan = "pending"
    /\ \A c \in CIDs : th[c].pc = "idle"
    /\ \E listOK \in BOOLEAN :
          /\ th' = IF listOK THEN spawnUnits(th, containers) ELSE th
          /\ rescan' = IF listOK THEN "done" ELSE "failed"
    /\ UNCHANGED <<config, mgrVars, envVars, dockerVars, res, sideVars>>

\* the rescan unit's w.handleContainerStart(containerID)
UnitStart(c) ==
    /\ th[c].pc = "start"
    /\ \E next \in handleContainerStart(config, containers, "rescan", c) :
          th' = [th EXCEPT ![c] = next]
    /\ UNCHANGED <<config, mgrVars, envVars, dockerVars, rescan, res, sideVars>>

\* a variant in which the panic is not recovered and ends every goroutine
recoverUnit_Propagate(threads, c) ==
    [t \in Threads |-> [Idle EXCEPT !.pc = "dead"]]

\* defer func() { if r := recover(); r != nil { log } }(): the unit ends, alone
recoverUnit(threads, c) == [threads EXCEPT ![c] = Idle]

\* a runtime fault in the rescan unit of container c, before its UpdateService call
UnitPanic(c) ==
    /\ th[c].pc \in {"start", "update"}
    /\ th' = recoverUnit(th, c)
    /\ recovered' = recovered \cup {c}
    /\ UNCHANGED <<config, mgrVars, envVars, dockerVars, rescan, res,
                   lockVars, loopVars, pollVars>>

\* the reference map after one call: an upsert assigns, a remove deletes
Replay(m, type, name, ip, port) ==
    IF type \notin {"http", "stream"} THEN m
    ELSE IF ip # "" /\ port # EmptyPort
    THEN [m EXCEPT ![<<type, name>>] = MapPut(@, ip, port)]
    ELSE [m EXCEPT ![<<type, name>>] = MapDelete(@, ip)]

\* w.nginxMgr.UpdateService(...) as called by goroutine t, and whether the
\* reload command is then invoked
UpdateAndReload(t) ==
    LET a == th[t]
        o == UpdateService(httpConfigs, streamConfigs, disk, config,
                           a.svc, a.ip, a.port, tplOK, ioOK)
    IN /\ httpConfigs' = o.httpConfigs
       /\ streamConfigs' = o.streamConfigs
       /\ disk' = o.disk
       /\ lastOp' = [name |-> a.svc.Name, type |-> a.svc.Type, ip |-> a.ip,
                     port |-> a.port, act |-> a.act,
                     before |-> UpstreamOf(httpConfigs, streamConfigs,
                                           a.svc.Type, a.svc.Name),
                     entry |-> HasEntry(httpConfigs, streamConfigs,
                                        a.svc.Type, a.svc.Name),
                     file |-> LET path == PathOf(config, a.svc.Type, a.svc.Name)
                              IN IF path \in DOMAIN disk THEN disk[path] ELSE Absent,
                     err |-> o.err, render |-> o.render, reload |-> ~o.err]
       /\ refMap' = Replay(refMap, a.svc.Type, a.svc.Name, a.ip, a.port)

\* updateNginxConfig from its call of UpdateService on, by goroutine t: on an
\* error it returns, else it runs the reload command (whose failure is only
\* logged) and returns
DoUpdate(t) ==
    /\ th[t].pc = "update"
    /\ UpdateAndReload(t)
    /\ th' = [th EXCEPT ![t] = Idle]
    /\ UNCHANGED <<config, envVars, dockerVars, rescan, res, sideVars>>

\* the same when the reload command never returns: cmd.CombinedOutput()
\* blocks goroutine t for good; one command hangs in a run
ReloadHangs(t) ==
    /\ th[t].pc = "update"
    /\ \A u \in Threads : th[u].pc # "hung"
    /\ ~UpdateService(httpConfigs, streamConfigs, disk, config,
                      th[t].svc, th[t].ip, th[t].port, tplOK, ioOK).err
    /\ UpdateAndReload(t)
    /\ th' = [th EXCEPT ![t].pc = "hung"]
    /\ UNCHANGED <<config, envVars, dockerVars, rescan, res, sideVars>>

(***************************************************************************)
(* The container runtime.                                                  *)
(***************************************************************************)
\* a container is named my-app or after itself
ContainerNames(c) == {<<"/", "my-app">>, <<"/", c>>}

Tcp9000 == MkPort(9000, "tcp")

\* on the default bridge, container port 9000/tcp published on host port h
BridgePublished(h) ==
    [Networks |-> ("bridge" :> "172.17.0.2"), Ports |-> (Tcp9000 :> <<h>>)]

\* on the default bridge, 9000/tcp exposed but not published
BridgeExposed ==
    [Networks |-> ("bridge" :> "172.17.0.2"), Ports |-> (Tcp9000 :> <<>>)]

\* attached to a macvlan network only
Macvlan(ip) ==
    [Networks |-> ("macnet" :> ip), Ports |-> (Tcp9000 :> <<>>)]

\* the network settings container c may run with
Profiles(c) ==
    IF c = "c1" THEN {BridgePublished(33000), BridgePublished(33001), BridgeExposed}
    ELSE {Macvlan("10.0.0.5")}

Running(name, p) == [Name |-> name, State |-> "running", Networks |-> p.Networks, Ports |-> p.Ports]

\* a stopped container keeps its network attachments, without IP and port table
Exited(container) ==
    [Name |-> container.Name, State |-> "exited",
     Networks |-> [n \in DOMAIN container.Networks |-> ""], Ports |-> EmptyMap]

\* the runtime performs one more operation and puts its events on the stream,
\* if there is a subscription
Emit(events) ==
    /\ ops < MaxDockerOps
    /\ ops' = ops + 1
    /\ queue' = IF stream.state = "open" THEN queue \o events ELSE queue

DockerStart(c) ==
    /\ containers[c].State = "exited"
    /\ \E p \in Profiles(c) :
          containers' = [containers EXCEPT ![c] = Running(containers[c].Name, p)]
    /\ Emit(<<[Action |-> "start", ID |-> c]>>)
    /\ UNCHANGED <<config, mgrVars, envVars, th, rescan, res, sideVars>>

\* docker stop emits die then stop; a container that exits by itself emits die
DockerStop(c) ==
    /\ containers[c].State = "running"
    /\ containers' = [containers EXCEPT ![c] = Exited(containers[c])]
    /\ \/ Emit(<<[Action |-> "die", ID |-> c]>>)
       \/ Emit(<<[Action |-> "die", ID |-> c], [Action |-> "stop", ID |-> c]>>)
    /\ UNCHANGED <<config, mgrVars, envVars, th, rescan, res, sideVars>>

DockerRename(c) ==
    /\ containers[c].State # "removed"
    /\ \E n \in ContainerNames(c) :
          /\ \A d \in CIDs : containers[d].State # "removed" => containers[d].Name # n
          /\ containers' = [containers EXCEPT ![c].Name = n]
    /\ Emit(<<[Action |-> "rename", ID |-> c]>>)
    /\ UNCHANGED <<config, mgrVars, envVars, th, rescan, res, sideVars>>

\* docker rm: ContainerInspect fails from now on
DockerRemove(c) ==
    /\ containers[c].State = "exited"
    /\ containers' = [containers EXCEPT ![c] = [NoContainer EXCEPT !.State = "removed"]]
    /\ Emit(<<>>)
    /\ UNCHANGED <<config, mgrVars, envVars, th, rescan, res, sideVars>>

(***************************************************************************)
(* The program: main loads the configuration, New builds an empty Manager, *)
(* Start launches the event loop and the startup rescan.                   *)
(***************************************************************************)
\* a goroutine that is not inside UpdateService
OutCS == [stage |-> "out", content |-> Absent, expect |-> <<>>]

NoResolution ==
    [container |-> NoContainer, service |-> NoService, ip |-> "", port |-> EmptyPort,
     done |-> FALSE, ip2 |-> "", port2 |-> EmptyPort, done2 |-> FALSE]

\* NewManager: empty maps, the mutex free
InitRegistry ==
    /\ httpConfigs = EmptyMap
    /\ streamConfigs = EmptyMap
    /\ lastOp = NoOp
    /\ refMap = [k \in {"http", "stream"} \X {"api", "db"} |-> EmptyMap]
    /\ mutex = ""
    /\ cs = [t \in Threads |-> OutCS]

\* New / NewManager
InitManager ==
    /\ config \in Configs
    /\ InitRegistry

\* the file config.Load read the configuration from
FileOf(c, mtime) ==
    [exists |-> TRUE, yaml |-> TRUE, Global |-> c.Global, Services |-> c.Services,
     mtime |-> mtime]

\* main / Start: the configuration is the one just loaded, the context is
\* live, the event loop subscribes, the poller waits for its first tick
InitWatcher ==
    /\ stream = [state |-> "open", errors |-> 0]
    /\ ctx = "live"
    /\ cfgFile = FileOf(config, 0)
    /\ poll = [pc |-> "idle", result |-> "", flip |-> FALSE, new |-> <<>>]
    /\ recovered = {}
    /\ mainPc = "running"

\* the host at startup: no artifacts, both containers exist, running or not
InitContainers ==
    /\ disk = [p \in Paths |-> Absent]
    /\ tplOK = TRUE
    /\ ioOK \in BOOLEAN
    /\ th = [t \in Threads |-> Idle]
    /\ rescan = "pending"
    /\ res = NoResolution
    /\ queue = <<>>
    /\ ops = 0
    /\ \E p1 \in Profiles("c1"), p2 \in Profiles("c2"), r1 \in BOOLEAN, r2 \in BOOLEAN :
          containers = ("c1" :> IF r1 THEN Running(<<"/", "my-app">>, p1)
                                ELSE Exited(Running(<<"/", "my-app">>, p1)))
                       @@ ("c2" :> IF r2 THEN Running(<<"/", "c2">>, p2)
                                   ELSE Exited(Running(<<"/", "c2">>, p2)))

Init ==
    /\ InitManager
    /\ InitWatcher
    /\ InitContainers

Next ==
    \/ EvReceive
    \/ CheckExistingContainers
    \/ \E c \in CIDs : UnitStart(c)
    \/ \E t \in Threads : DoUpdate(t)
    \/ \E c \in CIDs : DockerStart(c)
    \/ \E c \in CIDs : DockerStop(c)
    \/ \E c \in CIDs : DockerRename(c)
    \/ \E c \in CIDs : DockerRemove(c)

Spec == Init /\ [][Next]_vars

(***************************************************************************)
(* The same host under configurations that declare a service for each      *)
(* container, services that fail ValidateService, and a container name     *)
(* written with its leading "/"; rescan units may panic.                   *)
(***************************************************************************)
HostConfigs ==
    {DeclaredConfig(<<ApiService(<<"my-app">>), DbService(<<"c2">>, FALSE)>>),
     DeclaredConfig(<<[ApiService(<<"my-app">>) EXCEPT !.Type = "tcp"],
                      DbService(<<"c2">>, FALSE)>>),
     DeclaredConfig(<<[ApiService(<<"my-app">>) EXCEPT !.Port = 0],
                      [DbService(<<"c2">>, FALSE) EXCEPT !.ListenPort = 0]>>),
     DeclaredConfig(<<ApiService(<<"my-api">>), DbService(<<"/", "my-app">>, FALSE)>>)}

InitHost ==
    /\ config \in HostConfigs
    /\ InitRegistry
    /\ InitWatcher
    /\ InitContainers
    /\ ioOK = TRUE

NextHost ==
    \/ Next
    \/ \E c \in CIDs : UnitPanic(c)

SpecHost == InitHost /\ [][NextHost]_vars

(***************************************************************************)
(* The registry alone: UpdateService called with any arguments a caller    *)
(* can pass for the service of my-app, in directories that are writable or *)
(* read-only, while the template files come and go.                        *)
(***************************************************************************)
RegIPs == {"192.168.31.100", "10.0.0.5"}

RegPorts == {MkPort(33000, "tcp"), MkPort(33001, "tcp")}

InitReg ==
    /\ InitManager
    /\ InitWatcher
    /\ \E old \in {Absent, Stale} : disk = [p \in Paths |-> old]
    /\ tplOK = TRUE
    /\ ioOK \in BOOLEAN
    /\ th = [t \in Threads |-> Idle]
    /\ rescan = "done"
    /\ res = NoResolution
    /\ queue = <<>>
    /\ ops = 0
    /\ containers = [c \in CIDs |-> [NoContainer EXCEPT !.State = "removed"]]

\* a caller reaches w.nginxMgr.UpdateService(service, containerIP, containerPort)
RegCall ==
    /\ th["ev"].pc = "idle"
    /\ \E ip \in RegIPs \cup {""}, port \in RegPorts \cup {EmptyPort} :
          th' = [th EXCEPT !["ev"] =
                    [pc |-> "update", act |-> "call", cid |-> "",
                     svc |-> GetServiceByContainerName(config, <<"/", "my-app">>),
                     ip |-> ip, port |-> port]]
    /\ UNCHANGED <<config, mgrVars, envVars, dockerVars, rescan, res, sideVars>>

\* the template files are removed, broken or restored
SetTemplates ==
    /\ tplOK' = ~tplOK
    /\ UNCHANGED <<config, mgrVars, ioOK, dockerVars, th, rescan, res, sideVars>>

NextReg ==
    \/ RegCall
    \/ DoUpdate("ev")
    \/ SetTemplates

SpecReg == InitReg /\ [][NextReg]_vars

(***************************************************************************)
(* The address resolver alone: getContainerIP and getContainerPort applied *)
(* to any container out of a bounded set of network settings.              *)
(***************************************************************************)
\* the address a network gives the container
NetIP(n) ==
    IF n = "bridge" THEN "172.17.0.2"
    ELSE IF n = "macnet" THEN "10.0.0.5"
    ELSE IF n = "appnet" THEN "10.1.0.7"
    ELSE ""

NetNames == {"host", "bridge", "macnet", "appnet"}

\* NetworkSettings.Networks: any set of attachments, each with its address or none
NetworkSettings ==
    UNION {[S -> {"", "ip"}] : S \in SUBSET NetNames}

\* NetworkSettings.Ports: 9000/tcp and 9000/udp absent, exposed, or published
PortTables ==
    {[p \in S |-> IF p \in B THEN <<IF p.proto = "tcp" THEN 33000 ELSE 33001>> ELSE <<>>]
        : S \in SUBSET {Tcp9000, MkPort(9000, "udp")},
          B \in SUBSET {Tcp9000, MkPort(9000, "udp")}}

InitResolve ==
    /\ InitManager
    /\ InitWatcher
    /\ disk = [p \in Paths |-> Absent]
    /\ tplOK = TRUE
    /\ ioOK = TRUE
    /\ th = [t \in Threads |-> Idle]
    /\ rescan = "done"
    /\ queue = <<>>
    /\ ops = 0
    /\ containers = [c \in CIDs |-> [NoContainer EXCEPT !.State = "removed"]]
    /\ \E nets \in NetworkSettings, ports \in PortTables, i \in 1..Len(config.Services) :
          res = [container |-> [Name |-> <<"/", "my-app">>, State |-> "running",
                                Networks |-> [n \in DOMAIN nets |->
                                                 IF nets[n] = "ip" THEN NetIP(n) ELSE ""],
                                Ports |-> ports],
                 service |-> config.Services[i],
                 ip |-> "", port |-> EmptyPort, done |-> FALSE,
                 ip2 |-> "", port2 |-> EmptyPort, done2 |-> FALSE]

\* containerIP = w.getContainerIP(container); containerPort = w.getContainerPort(container, service)
Resolve ==
    /\ ~res.done
    /\ \E ip \in getContainerIP(config, res.container) :
          res' = [res EXCEPT !.ip = ip,
                             !.port = getContainerPort(res.container, res.service),
                             !.done = TRUE]
    /\ UNCHANGED <<config, mgrVars, envVars, dockerVars, th, rescan, sideVars>>

\* the same container is resolved once more, for the same service
ResolveAgain ==
    /\ res.done
    /\ ~res.done2
    /\ \E ip \in getContainerIP(config, res.container) :
          res' = [res EXCEPT !.ip2 = ip,
                             !.port2 = getContainerPort(res.container, res.service),
                             !.done2 = TRUE]
    /\ UNCHANGED <<config, mgrVars, envVars, dockerVars, th, rescan, sideVars>>

NextResolve == Resolve \/ ResolveAgain

SpecResolve == InitResolve /\ [][NextResolve]_vars

(***************************************************************************)
(* The event loop with a stream that breaks and a context that main may    *)
(* cancel.                                                                 *)
(***************************************************************************)
\* a variant in which the loop ends when startEventStream returns
listenEvents_Once(c) == "stopped"

\* listenEvents, when startEventStream has returned: stop if ctx is done,
\* otherwise call startEventStream again
listenEvents(c) == IF c = "cancelled" THEN "stopped" ELSE "idle"

InitLoop ==
    /\ InitManager
    /\ InitWatcher
    /\ disk = [p \in Paths |-> Absent]
    /\ tplOK = TRUE
    /\ ioOK = TRUE
    /\ th = [t \in Threads |-> Idle]
    /\ rescan = "done"
    /\ res = NoResolution
    /\ queue = <<>>
    /\ ops = 0
    /\ \E p1 \in Profiles("c1") :
          containers = ("c1" :> Exited(Running(<<"/", "my-app">>, p1)))
                       @@ ("c2" :> [NoContainer EXCEPT !.State = "removed"])

\* the connection to the Docker daemon breaks: an error waits on errStream
StreamError ==
    /\ stream.state = "open"
    /\ stream.errors < MaxStreamErrors
    /\ stream' = [state |-> "error", errors |-> stream.errors + 1]
    /\ UNCHANGED <<config, mgrVars, envVars, dockerVars, th, rescan, res,
                   lockVars, ctx, mainPc, pollVars, recovered>>

\* startEventStream: case err := <-errStream: log, time.Sleep(5 * time.Second);
\* events still on the broken stream are lost
EvStreamError ==
    /\ th["ev"].pc = "idle"
    /\ stream.state = "error"
    /\ th' = [th EXCEPT !["ev"].pc = "backoff"]
    /\ stream' = [stream EXCEPT !.state = "closed"]
    /\ queue' = <<>>
    /\ UNCHANGED <<config, mgrVars, envVars, containers, ops, rescan, res,
                   lockVars, ctx, mainPc, pollVars, recovered>>

\* the sleep is over and startEventStream returns to listenEvents
EvResubscribe ==
    /\ th["ev"].pc = "backoff"
    /\ th' = [th EXCEPT !["ev"].pc = listenEvents(ctx)]
    /\ stream' = [stream EXCEPT !.state = IF listenEvents(ctx) = "idle" THEN "open" ELSE "closed"]
    /\ UNCHANGED <<config, mgrVars, envVars, dockerVars, rescan, res,
                   lockVars, ctx, mainPc, pollVars, recovered>>

\* main: a signal arrives and cancel() is called
Shutdown ==
    /\ ctx = "live"
    /\ ctx' = "cancelled"
    /\ UNCHANGED <<config, mgrVars, envVars, dockerVars, th, rescan, res,
                   lockVars, stream, mainPc, pollVars, recovered>>

\* startEventStream: case <-ctx.Done(): return, and listenEvents returns
EvStop ==
    /\ th["ev"].pc = "idle"
    /\ ctx = "cancelled"
    /\ th' = [th EXCEPT !["ev"].pc = "stopped"]
    /\ stream' = [stream EXCEPT !.state = "closed"]
    /\ UNCHANGED <<config, mgrVars, envVars, dockerVars, rescan, res,
                   lockVars, ctx, mainPc, pollVars, recovered>>

NextLoop ==
    \/ EvReceive
    \/ DoUpdate("ev")
    \/ DockerStart("c1")
    \/ DockerStop("c1")
    \/ StreamError
    \/ EvStreamError
    \/ EvResubscribe
    \/ Shutdown
    \/ EvStop

SpecLoop == InitLoop /\ [][NextLoop]_vars

\* the Go scheduler runs the event loop: its sleep ends, and a pending error
\* or cancellation is received
SpecLoopFair ==
    /\ SpecLoop
    /\ WF_vars(EvResubscribe)
    /\ WF_vars(EvStreamError)
    /\ WF_vars(EvStop)

(***************************************************************************)
(* The configuration poller beside the rescan units, while the file is     *)
(* edited.  Reload copies the loaded Config into the shared one with       *)
(* *c = *newConfig while other goroutines read it without a lock: the copy *)
(* is taken in two parts, in either order.                                 *)
(***************************************************************************)
\* (c *Config) Validate: TRUE when it returns nil
Validate(c) ==
    /\ c.Global.NginxConfigDir # ""
    /\ c.Global.StreamConfigDir # ""
    /\ c.Global.NginxReloadCmd # ""

\* config.Load: the configuration read from the file, with the file's
\* modification time, and whether reading, parsing and Validate succeeded
Load(file) ==
    LET c == [Global |-> file.Global, Services |-> file.Services, lastMod |-> file.mtime]
    IN [ok |-> file.exists /\ file.yaml /\ Validate(c), config |-> c]

\* (c *Config) HasChanged: false when os.Stat fails, else
\* stat.ModTime().After(c.lastMod)
HasChanged(c, file) == file.exists /\ file.mtime > c.lastMod

\* a variant that remembers the modification time of a file it could not load
Reload_RememberFailure(c, file) ==
    IF Load(file).ok THEN [err |-> FALSE, config |-> Load(file).config]
    ELSE [err |-> TRUE, config |-> [c EXCEPT !.lastMod = file.mtime]]

\* (c *Config) Reload: the new value of *c, which is the old one on error
Reload(c, file) ==
    IF Load(file).ok THEN [err |-> FALSE, config |-> Load(file).config]
    ELSE [err |-> TRUE, config |-> c]

\* the configuration the program starts with
ConfigA == DeclaredConfig(<<ApiService(<<"my-app">>), DbService(<<"c2">>, FALSE)>>)

\* another one: another host IP, and my-app is now the stream service
ConfigB ==
    [ConfigA EXCEPT !.Global.HostIP = "192.168.31.200",
                    !.Services = <<ApiService(<<"my-api">>),
                                   DbService(<<"/", "my-app">>, FALSE)>>]

\* what an edit may leave in the file: either configuration, text that is
\* not YAML, or a configuration without nginx_reload_cmd
PollFiles ==
    {FileOf(ConfigA, 0), FileOf(ConfigB, 0),
     [FileOf(ConfigB, 0) EXCEPT !.yaml = FALSE],
     [FileOf(ConfigB, 0) EXCEPT !.Global.NginxReloadCmd = ""]}

InitPoll ==
    /\ config = ConfigA
    /\ InitRegistry
    /\ InitWatcher
    /\ disk = [p \in Paths |-> Absent]
    /\ tplOK = TRUE
    /\ ioOK = TRUE
    /\ th = [t \in Threads |-> Idle]
    /\ rescan = "pending"
    /\ res = NoResolution
    /\ queue = <<>>
    /\ ops = 0
    /\ containers = ("c1" :> Running(<<"/", "my-app">>, BridgePublished(33000)))
                    @@ ("c2" :> Running(<<"/", "c2">>, Macvlan("10.0.0.5")))

\* somebody rewrites the configuration file
EditConfig ==
    /\ cfgFile.mtime < MaxEdits
    /\ \E f \in PollFiles : cfgFile' = [f EXCEPT !.mtime = cfgFile.mtime + 1]
    /\ UNCHANGED <<config, mgrVars, envVars, dockerVars, th, rescan, res,
                   lockVars, loopVars, poll, recovered>>

\* watchConfigFile: case <-ticker.C with HasChanged(): Reload fails and the
\* loop continues, or Load succeeds and *c = *newConfig begins
PollTick ==
    /\ poll.pc = "idle"
    /\ ctx = "live"
    /\ HasChanged(config, cfgFile)
    /\ LET r == Reload(config, cfgFile)
       IN IF r.err
          THEN /\ config' = r.config
               /\ poll' = [poll EXCEPT !.result = "failed", !.flip = ~poll.flip]
          ELSE \E part \in {"Global", "Services"} :
                  /\ config' = [config EXCEPT ![part] = r.config[part]]
                  /\ poll' = [poll EXCEPT !.pc = "copying", !.flip = ~poll.flip,
                                          !.new = r.config]
    /\ UNCHANGED <<mgrVars, envVars, dockerVars, th, rescan, res,
                   lockVars, loopVars, cfgFile, recovered>>

\* the copy completes; UpdateConfig hands the Manager the same pointer;
\* go w.checkExistingContainers(ctx)
PollCopy ==
    /\ poll.pc = "copying"
    /\ config' = poll.new
    /\ poll' = [poll EXCEPT !.pc = "idle", !.result = "ok", !.new = <<>>]
    /\ rescan' = "pending"
    /\ UNCHANGED <<mgrVars, envVars, dockerVars, th, res,
                   lockVars, loopVars, cfgFile, recovered>>

NextPoll ==
    \/ EditConfig
    \/ PollTick
    \/ PollCopy
    \/ CheckExistingContainers
    \/ \E c \in CIDs : UnitStart(c)
    \/ \E c \in CIDs : DoUpdate(c)

SpecPoll == InitPoll /\ [][NextPoll]_vars

(***************************************************************************)
(* The poller alone and a file whose modification time is set freely: an   *)
(* edit, a copy that preserves an older time, a removal.                   *)
(***************************************************************************)
\* the modification times a file can carry
ModTimes == 0..MaxEdits

\* the file is written, or replaced by a copy that keeps its own time
SetModTime ==
    /\ \E f \in PollFiles, t \in ModTimes : cfgFile' = [f EXCEPT !.mtime = t]
    /\ cfgFile' # cfgFile
    /\ UNCHANGED <<config, mgrVars, envVars, dockerVars, th, rescan, res,
                   lockVars, loopVars, poll, recovered>>

\* the file is removed: os.Stat and os.ReadFile fail
RemoveConfig ==
    /\ cfgFile.exists
    /\ cfgFile' = [cfgFile EXCEPT !.exists = FALSE]
    /\ UNCHANGED <<config, mgrVars, envVars, dockerVars, th, rescan, res,
                   lockVars, loopVars, poll, recovered>>

\* watchConfigFile: case <-ticker.C without HasChanged(): the loop goes on
PollSkip ==
    /\ poll.pc = "idle"
    /\ ctx = "live"
    /\ ~HasChanged(config, cfgFile)
    /\ poll' = [poll EXCEPT !.result = "unchanged"]
    /\ UNCHANGED <<config, mgrVars, envVars, dockerVars, th, rescan, res,
                   lockVars, loopVars, cfgFile, recovered>>

NextMtime ==
    \/ SetModTime
    \/ RemoveConfig
    \/ PollTick
    \/ PollSkip
    \/ PollCopy

SpecMtime == InitPoll /\ [][NextMtime]_vars

(***************************************************************************)
(* The poller with Load in its two file accesses: os.ReadFile reads the    *)
(* content, os.Stat reads the modification time later, and the file may be *)
(* rewritten between them.                                                 *)
(***************************************************************************)
\* watchConfigFile: case <-ticker.C with HasChanged(); Reload calls Load,
\* whose os.ReadFile takes the content the file has now
LoadRead ==
    /\ poll.pc = "idle"
    /\ ctx = "live"
    /\ HasChanged(config, cfgFile)
    /\ poll' = [poll EXCEPT !.pc = "loading", !.flip = ~poll.flip, !.new = cfgFile]
    /\ UNCHANGED <<config, mgrVars, envVars, dockerVars, th, rescan, res,
                   lockVars, loopVars, cfgFile, recovered>>

\* the rest of Load and of the tick: yaml.Unmarshal of what was read,
\* os.Stat for the modification time the file has now, Validate; on success
\* *c = *newConfig, UpdateConfig and go w.checkExistingContainers(ctx)
LoadStat ==
    /\ poll.pc = "loading"
    /\ LET r == Reload(config, [poll.new EXCEPT !.mtime = cfgFile.mtime])
       IN /\ config' = r.config
          /\ poll' = [poll EXCEPT !.pc = "idle", !.new = <<>>,
                                  !.result = IF r.err THEN "failed" ELSE "ok"]
          /\ rescan' = IF r.err THEN rescan ELSE "pending"
    /\ UNCHANGED <<mgrVars, envVars, dockerVars, th, res,
                   lockVars, loopVars, cfgFile, recovered>>

NextLoad ==
    \/ EditConfig
    \/ LoadRead
    \/ LoadStat
    \/ CheckExistingContainers
    \/ \E c \in CIDs : UnitStart(c)
    \/ \E c \in CIDs : DoUpdate(c)

SpecLoad == InitPoll /\ [][NextLoad]_vars

(***************************************************************************)
(* One container that is stopped and started again, on the default bridge  *)
(* or on a macvlan network, so that the service of my-app collects the     *)
(* addresses it had; every docker stop emits die and stop.                 *)
(***************************************************************************)
InitStop ==
    /\ config = DeclaredConfig(<<ApiService(<<"my-app">>), DbService(<<"/", "my-db">>, FALSE)>>)
    /\ InitRegistry
    /\ InitWatcher
    /\ disk = [p \in Paths |-> Absent]
    /\ tplOK = TRUE
    /\ ioOK \in BOOLEAN
    /\ th = [t \in Threads |-> Idle]
    /\ rescan = "pending"
    /\ res = NoResolution
    /\ queue = <<>>
    /\ ops = 0
    /\ \E p \in {BridgePublished(33000), Macvlan("10.0.0.5")} :
          containers = ("c1" :> Running(<<"/", "my-app">>, p))
                       @@ ("c2" :> [NoContainer EXCEPT !.State = "removed"])

\* docker start after the container's network was changed or kept; the
\* runtime performs one operation more than elsewhere: stop, start, stop
StartAgain ==
    /\ containers["c1"].State = "exited"
    /\ ops < MaxDockerOps + 1
    /\ ops' = ops + 1
    /\ \E p \in {BridgePublished(33000), Macvlan("10.0.0.5")} :
          containers' = [containers EXCEPT !["c1"] = Running(containers["c1"].Name, p)]
    /\ queue' = queue \o <<[Action |-> "start", ID |-> "c1"]>>
    /\ UNCHANGED <<config, mgrVars, envVars, th, rescan, res, sideVars>>

\* docker stop: the runtime emits die, then stop
StopAgain ==
    /\ containers["c1"].State = "running"
    /\ ops < MaxDockerOps + 1
    /\ ops' = ops + 1
    /\ containers' = [containers EXCEPT !["c1"] = Exited(containers["c1"])]
    /\ queue' = queue \o <<[Action |-> "die", ID |-> "c1"], [Action |-> "stop", ID |-> "c1"]>>
    /\ UNCHANGED <<config, mgrVars, envVars, th, rescan, res, sideVars>>

NextStop ==
    \/ EvReceive
    \/ CheckExistingContainers
    \/ UnitStart("c1")
    \/ \E t \in {"ev", "c1"} : DoUpdate(t)
    \/ StartAgain
    \/ StopAgain

SpecStop == InitStop /\ [][NextStop]_vars

(***************************************************************************)
(* The registry while the configuration directories become unwritable and  *)
(* writable again.                                                         *)
(***************************************************************************)
\* the directories' permissions change: os.WriteFile and os.Remove fail or succeed
SetWritable ==
    /\ ioOK' = ~ioOK
    /\ UNCHANGED <<config, mgrVars, tplOK, dockerVars, th, rescan, res, sideVars>>

NextDisk ==
    \/ RegCall
    \/ DoUpdate("ev")
    \/ SetWritable

SpecDisk == InitReg /\ [][NextDisk]_vars

(***************************************************************************)
(* The host when a reload command may hang.                                *)
(***************************************************************************)
NextHang ==
    \/ Next
    \/ \E t \in Threads : ReloadHangs(t)

SpecHang == Init /\ [][NextHang]_vars

(***************************************************************************)
(* Shutdown while the startup rescan and its units run: main cancels the   *)
(* context, closes the client and returns, which ends the process and      *)
(* every goroutine in it.                                                  *)
(***************************************************************************)
\* checkExistingContainers while the context is live
RescanLive ==
    /\ ctx = "live"
    /\ CheckExistingContainers

\* checkExistingContainers after cancel(): ContainerList(ctx) returns the
\* context's error and no unit is started
RescanCancelled ==
    /\ ctx = "cancelled"
    /\ rescan = "pending"
    /\ rescan' = "failed"
    /\ UNCHANGED <<config, mgrVars, envVars, dockerVars, th, res, sideVars>>

\* watchConfigFile: case <-ctx.Done(): return
PollStop ==
    /\ ctx = "cancelled"
    /\ poll.pc = "idle"
    /\ poll' = [poll EXCEPT !.pc = "stopped"]
    /\ UNCHANGED <<config, mgrVars, envVars, dockerVars, th, rescan, res,
                   lockVars, loopVars, cfgFile, recovered>>

\* main after cancel(): containerWatcher.Stop() and return; the process
\* exits without waiting for any goroutine
MainExit ==
    /\ ctx = "cancelled"
    /\ ctx' = "exited"
    /\ th' = [t \in Threads |-> [th[t] EXCEPT !.pc = "exited"]]
    /\ poll' = [poll EXCEPT !.pc = "exited"]
    /\ UNCHANGED <<config, mgrVars, envVars, dockerVars, rescan, res,
                   lockVars, stream, mainPc, cfgFile, recovered>>

NextExit ==
    \/ RescanLive
    \/ RescanCancelled
    \/ \E c \in CIDs : UnitStart(c)
    \/ \E c \in CIDs : DoUpdate(c)
    \/ Shutdown
    \/ EvStop
    \/ PollStop
    \/ MainExit

SpecExit == Init /\ [][NextExit]_vars

(***************************************************************************)
(* main from its first statement: initLogger, config.Load, watcher.New and *)
(* Start, each followed by log.Fatalf on error, then the running program   *)
(* with the errors it can meet.                                            *)
(***************************************************************************)
\* a variant in which Start can return an error
StartResult_MayFail == {"running", "fatal"}

\* containerWatcher.Start(ctx) returns nil in every case
StartResult == {"running"}

InitBoot ==
    /\ mainPc = "initLogger"
    /\ config = DeclaredConfig(<<>>)
    /\ InitRegistry
    /\ stream = [state |-> "closed", errors |-> 0]
    /\ ctx = "none"
    /\ cfgFile \in {FileOf(ConfigA, 0), [FileOf(ConfigA, 0) EXCEPT !.yaml = FALSE],
                    FileOf(DeclaredConfig(
                              <<[ApiService(<<"my-app">>) EXCEPT !.Type = "tcp"]>>), 0)}
    /\ poll = [pc |-> "idle", result |-> "", flip |-> FALSE, new |-> <<>>]
    /\ recovered = {}
    /\ disk = [p \in Paths |-> Absent]
    /\ tplOK = TRUE
    /\ ioOK = FALSE
    /\ th = [t \in Threads |-> Idle]
    /\ rescan = "none"
    /\ res = NoResolution
    /\ queue = <<>>
    /\ ops = 0
    /\ containers = ("c1" :> Running(<<"/", "my-app">>, BridgePublished(33000)))
                    @@ ("c2" :> [NoContainer EXCEPT !.State = "removed"])

\* initLogger: os.MkdirAll and os.OpenFile, log.Fatalf when either fails
BootLogger ==
    /\ mainPc = "initLogger"
    /\ \E ok \in BOOLEAN : mainPc' = IF ok THEN "load" ELSE "fatal"
    /\ UNCHANGED <<config, mgrVars, envVars, dockerVars, th, rescan, res,
                   lockVars, stream, ctx, pollVars, recovered>>

\* cfg, err := config.Load(*configFile), log.Fatalf on error
BootLoad ==
    /\ mainPc = "load"
    /\ mainPc' = IF Load(cfgFile).ok THEN "new" ELSE "fatal"
    /\ config' = IF Load(cfgFile).ok THEN Load(cfgFile).config ELSE config
    /\ UNCHANGED <<mgrVars, envVars, dockerVars, th, rescan, res,
                   lockVars, stream, ctx, pollVars, recovered>>

\* watcher.New(cfg): the Docker client cannot be created, log.Fatalf
BootNew ==
    /\ mainPc = "new"
    /\ \E ok \in BOOLEAN : mainPc' = IF ok THEN "start" ELSE "fatal"
    /\ UNCHANGED <<config, mgrVars, envVars, dockerVars, th, rescan, res,
                   lockVars, stream, ctx, pollVars, recovered>>

\* context.WithCancel and containerWatcher.Start(ctx): the event loop, the
\* poller and the startup rescan are started
BootStart ==
    /\ mainPc = "start"
    /\ \E r \in StartResult : mainPc' = r
    /\ ctx' = "live"
    /\ stream' = [stream EXCEPT !.state = "open"]
    /\ rescan' = "pending"
    /\ UNCHANGED <<config, mgrVars, envVars, dockerVars, th, res,
                   lockVars, pollVars, recovered>>

\* the connection to the Docker daemon breaks, once
DaemonDown ==
    /\ stream.state = "open"
    /\ stream.errors = 0
    /\ stream' = [state |-> "error", errors |-> 1]
    /\ UNCHANGED <<config, mgrVars, envVars, dockerVars, th, rescan, res,
                   lockVars, ctx, mainPc, pollVars, recovered>>

\* somebody leaves the configuration file with text that is not YAML
BreakConfig ==
    /\ cfgFile.yaml
    /\ cfgFile' = [cfgFile EXCEPT !.yaml = FALSE, !.mtime = @ + 1]
    /\ UNCHANGED <<config, mgrVars, envVars, dockerVars, th, rescan, res,
                   lockVars, loopVars, poll, recovered>>

\* once started the goroutines meet the errors of the event stream, of the
\* rescan and its units, of the registry and of later reloads
NextBoot ==
    \/ BootLogger
    \/ BootLoad
    \/ BootNew
    \/ BootStart
    \/ DaemonDown
    \/ EvStreamError
    \/ EvResubscribe
    \/ EvReceive
    \/ CheckExistingContainers
    \/ \E c \in CIDs : UnitStart(c)
    \/ \E t \in Threads : DoUpdate(t)
    \/ DockerStop("c1")
    \/ DockerRemove("c1")
    \/ BreakConfig
    \/ PollTick

SpecBoot == InitBoot /\ [][NextBoot]_vars

(***************************************************************************)
(* Hot reload of an edited service list: a service is deleted from the     *)
(* file, or its routing parameters are changed, while its container runs.  *)
(***************************************************************************)
\* the starting configuration without the service api
ConfigDeleted == [ConfigA EXCEPT !.Services = <<DbService(<<"c2">>, FALSE)>>]

\* the starting configuration with another domain and path for api and
\* another listen port for db
ConfigModified ==
    [ConfigA EXCEPT !.Services =
        <<[ApiService(<<"my-app">>) EXCEPT !.Domain = "app.example.com", !.Path = "/v2"],
          [DbService(<<"c2">>, FALSE) EXCEPT !.ListenPort = 3307]>>]

HotFiles == {FileOf(ConfigA, 0), FileOf(ConfigDeleted, 0), FileOf(ConfigModified, 0)}

\* somebody edits the service list of the configuration file
EditServices ==
    /\ cfgFile.mtime < MaxEdits
    /\ \E f \in HotFiles : cfgFile' = [f EXCEPT !.mtime = cfgFile.mtime + 1]
    /\ UNCHANGED <<config, mgrVars, envVars, dockerVars, th, rescan, res,
                   lockVars, loopVars, poll, recovered>>

NextHot ==
    \/ EditServices
    \/ PollTick
    \/ PollCopy
    \/ CheckExistingContainers
    \/ \E c \in CIDs : UnitStart(c)
    \/ \E c \in CIDs : DoUpdate(c)

SpecHot == InitPoll /\ [][NextHot]_vars

(***************************************************************************)
(* UpdateService step by step: two goroutines call it for the service of   *)
(* my-app, each acquiring Manager.mutex, updating the entry and rendering  *)
(* it, then writing or deleting the artifact and releasing the mutex.      *)
(***************************************************************************)
LockThreads == {"ev", "c1"}

\* generate*Config decided to delete the artifact
DeleteMark == [t |-> "delete"]

\* a variant in which Lock() never waits
CanLock_Always(holder) == TRUE

\* m.mutex.Lock() returns only when no goroutine holds the mutex
CanLock(holder) == holder = ""

InitLock ==
    /\ InitManager
    /\ InitWatcher
    /\ disk = [p \in Paths |-> Absent]
    /\ tplOK = TRUE
    /\ ioOK = TRUE
    /\ th = [t \in Threads |-> Idle]
    /\ rescan = "done"
    /\ res = NoResolution
    /\ queue = <<>>
    /\ ops = 0
    /\ containers = [c \in CIDs |-> [NoContainer EXCEPT !.State = "removed"]]

\* goroutine t reaches w.nginxMgr.UpdateService(service, containerIP, containerPort)
CallUpdate(t) ==
    /\ th[t].pc = "idle"
    /\ \E ip \in RegIPs \cup {""}, port \in RegPorts \cup {EmptyPort} :
          th' = [th EXCEPT ![t] =
                    [pc |-> "update", act |-> "call", cid |-> "",
                     svc |-> GetServiceByContainerName(config, <<"/", "my-app">>),
                     ip |-> ip, port |-> port]]
    /\ UNCHANGED <<config, mgrVars, envVars, dockerVars, rescan, res, sideVars>>

\* m.mutex.Lock(); expect is what UpdateService makes of the state found
Lock(t) ==
    /\ th[t].pc = "update"
    /\ cs[t].stage = "out"
    /\ CanLock(mutex)
    /\ mutex' = t
    /\ LET a == th[t]
           o == UpdateService(httpConfigs, streamConfigs, disk, config,
                              a.svc, a.ip, a.port, tplOK, ioOK)
       IN cs' = [cs EXCEPT ![t] = [stage |-> "locked", content |-> Absent,
                                   expect |-> <<o.httpConfigs, o.streamConfigs, o.disk>>]]
    /\ UNCHANGED <<config, mgrVars, envVars, dockerVars, th, rescan, res,
                   loopVars, pollVars, recovered>>

\* update*Service up to os.WriteFile / delete*Config: the entry is updated
\* and, unless it is to be deleted, its content is rendered
UpdateEntry(t) ==
    /\ cs[t].stage = "locked"
    /\ LET a == th[t]
           h == IF a.svc.Type = "http"
                THEN putHTTPServer(httpConfigs, a.svc, a.ip, a.port) ELSE httpConfigs
           s == IF a.svc.Type = "stream"
                THEN putStreamServer(streamConfigs, a.svc, a.ip, a.port) ELSE streamConfigs
           content == IF a.svc.Type = "http"
                      THEN IF Len(h[a.svc.Name].Upstream) = 0 THEN DeleteMark
                           ELSE buildHTTPConfigContent(h[a.svc.Name], tplOK)
                      ELSE IF Len(s[a.svc.Name].Upstream) = 0 /\ ~s[a.svc.Name].EnableSNI
                           THEN DeleteMark
                           ELSE buildStreamConfigContent(s[a.svc.Name], tplOK)
       IN /\ httpConfigs' = h
          /\ streamConfigs' = s
          /\ refMap' = Replay(refMap, a.svc.Type, a.svc.Name, a.ip, a.port)
          /\ cs' = [cs EXCEPT ![t].stage = "rendered", ![t].content = content]
    /\ UNCHANGED <<config, disk, lastOp, envVars, dockerVars, th, rescan, res, mutex,
                   loopVars, pollVars, recovered>>

\* os.WriteFile or delete*Config, then the deferred m.mutex.Unlock()
Commit(t) ==
    /\ cs[t].stage = "rendered"
    /\ LET a == th[t]
           dir == PathOf(config, a.svc.Type, a.svc.Name)[1]
           r == [configs |-> IF a.svc.Type = "http" THEN httpConfigs ELSE streamConfigs,
                 disk |-> disk]
           o == IF cs[t].content = DeleteMark
                THEN deleteConfig(r, dir, a.svc.Name, ioOK)
                ELSE writeConfig(r, dir, a.svc.Name, cs[t].content, ioOK)
       IN /\ httpConfigs' = IF a.svc.Type = "http" THEN o.configs ELSE httpConfigs
          /\ streamConfigs' = IF a.svc.Type = "stream" THEN o.configs ELSE streamConfigs
          /\ disk' = o.disk
    /\ mutex' = ""
    /\ cs' = [cs EXCEPT ![t] = OutCS]
    /\ th' = [th EXCEPT ![t] = Idle]
    /\ UNCHANGED <<config, lastOp, refMap, envVars, dockerVars, rescan, res,
                   loopVars, pollVars, recovered>>

NextLock ==
    \/ \E t \in LockThreads : CallUpdate(t)
    \/ \E t \in LockThreads : Lock(t)
    \/ \E t \in LockThreads : UpdateEntry(t)
    \/ \E t \in LockThreads : Commit(t)

SpecLock == InitLock /\ [][NextLock]_vars

(***************************************************************************)
(* The same calls with a rescan unit that faults inside UpdateService, and *)
(* the poller's UpdateConfig waiting for the same mutex.                   *)
(***************************************************************************)
\* a variant in which unwinding does not run the deferred Unlock
deferUnlock_Skipped(holder, t) == holder

\* defer m.mutex.Unlock(), run when UpdateService returns or unwinds
deferUnlock(holder, t) == IF holder = t THEN "" ELSE holder

\* a runtime fault in rescan unit c between Lock() and the return of
\* UpdateService: the deferred Unlock runs, then the unit's recover()
PanicInLock(c) ==
    /\ cs[c].stage \in {"locked", "rendered"}
    /\ mutex' = deferUnlock(mutex, c)
    /\ cs' = [cs EXCEPT ![c] = OutCS]
    /\ th' = recoverUnit(th, c)
    /\ recovered' = recovered \cup {c}
    /\ UNCHANGED <<config, mgrVars, envVars, dockerVars, rescan, res, loopVars, pollVars>>

\* watchConfigFile: a tick whose Reload succeeded is about to call
\* w.nginxMgr.UpdateConfig(w.config)
PollReloaded ==
    /\ poll.pc = "idle"
    /\ ctx = "live"
    /\ poll' = [poll EXCEPT !.pc = "updateConfig", !.flip = ~poll.flip]
    /\ UNCHANGED <<config, mgrVars, envVars, dockerVars, th, rescan, res,
                   lockVars, loopVars, cfgFile, recovered>>

\* UpdateConfig: Lock, m.config = cfg (the pointer it already holds), Unlock;
\* then go w.checkExistingContainers(ctx)
UpdateConfig ==
    /\ poll.pc = "updateConfig"
    /\ CanLock(mutex)
    /\ poll' = [poll EXCEPT !.pc = "idle", !.result = "ok"]
    /\ rescan' = "pending"
    /\ UNCHANGED <<config, mgrVars, envVars, dockerVars, th, res,
                   lockVars, loopVars, cfgFile, recovered>>

\* goroutine t reaches UpdateService for the service of my-app, to add the
\* one address or to remove
FaultCall(t) ==
    /\ th[t].pc = "idle"
    /\ \E a \in {<<"10.0.0.5", MkPort(33000, "tcp")>>, <<"", EmptyPort>>} :
          th' = [th EXCEPT ![t] =
                    [pc |-> "update", act |-> "call", cid |-> "",
                     svc |-> GetServiceByContainerName(config, <<"/", "my-app">>),
                     ip |-> a[1], port |-> a[2]]]
    /\ UNCHANGED <<config, mgrVars, envVars, dockerVars, rescan, res, sideVars>>

NextFault ==
    \/ \E t \in LockThreads : FaultCall(t)
    \/ \E t \in LockThreads : Lock(t)
    \/ \E t \in LockThreads : UpdateEntry(t)
    \/ \E t \in LockThreads : Commit(t)
    \/ \E c \in LockThreads \cap CIDs : PanicInLock(c)
    \/ PollReloaded
    \/ UpdateConfig

SpecFault == InitLock /\ [][NextFault]_vars

\* sync.Mutex hands the lock to a waiting goroutine, and the scheduler runs
\* a goroutine that can take a step
SpecFaultFair ==
    /\ SpecFault
    /\ \A t \in LockThreads :
          SF_vars(Lock(t)) /\ WF_vars(UpdateEntry(t)) /\ WF_vars(Commit(t))
    /\ SF_vars(UpdateConfig)

(***************************************************************************)
(* Properties.                                                             *)
(***************************************************************************)
\* thread t performs its UpdateService call (and the reload that follows it)
UpdateStep(t) == th[t].pc = "update" /\ th'[t].pc = "idle"

\* the registry's member list of the service the last operation was applied to
LastUpstream == UpstreamOf(httpConfigs, streamConfigs, lastOp.type, lastOp.name)

\* the artifact of the service the last operation was applied to
LastFile == disk[PathOf(config, lastOp.type, lastOp.name)]

\* the last operation was applied to a stream service whose entry has SNI enabled
LastIsSNI ==
    /\ lastOp.type = "stream"
    /\ lastOp.name \in DOMAIN streamConfigs
    /\ streamConfigs[lastOp.name].EnableSNI

\* C1: once a start has registered the host address with published port 33000
\* as the only member of the http service, a stop event for that container
\* leaves the service with no member, no registry entry and no artifact.
C1_StopEmptiesService ==
    [][\A t \in Threads :
          (/\ UpdateStep(t)
           /\ th[t].act \in {"stop", "die"}
           /\ th[t].cid = "c1"
           /\ th[t].svc.Type = "http"
           /\ "api" \in DOMAIN httpConfigs
           /\ httpConfigs["api"].Upstream =
                 <<[IP |-> config.Global.HostIP, Port |-> MkPort(33000, "tcp")]>>
           /\ ~lastOp'.err)
          => /\ "api" \notin DOMAIN httpConfigs'
             /\ disk'[<<config.Global.NginxConfigDir, "api">>] = Absent]_vars

\* C2: no member list of the registry ever holds two members with the same IP.
C2_OneMemberPerAddress ==
    /\ \A n \in DOMAIN httpConfigs :
          \A i, j \in 1..Len(httpConfigs[n].Upstream) :
             httpConfigs[n].Upstream[i].IP = httpConfigs[n].Upstream[j].IP => i = j
    /\ \A n \in DOMAIN streamConfigs :
          \A i, j \in 1..Len(streamConfigs[n].Upstream) :
             streamConfigs[n].Upstream[i].IP = streamConfigs[n].Upstream[j].IP => i = j

\* a start arrived for an address that was already a member with another port
C2_Witness ==
    /\ lastOp.act \in {"start", "rename", "rescan"}
    /\ lastOp.port # EmptyPort
    /\ ~lastOp.err
    /\ \E i \in 1..Len(lastOp.before) :
          lastOp.before[i].IP = lastOp.ip /\ lastOp.before[i].Port # lastOp.port
    /\ Len(LastUpstream) = Len(lastOp.before)

\* C3: each member list, read as a set of (IP, port) pairs, is the map from IP
\* to port obtained by replaying the same upserts and removals on a map.
C3_RegistryRefinesMap ==
    \A k \in DOMAIN refMap :
       LET upstream == UpstreamOf(httpConfigs, streamConfigs, k[1], k[2])
       IN /\ {<<upstream[i].IP, upstream[i].Port>> : i \in 1..Len(upstream)} =
                {<<ip, refMap[k][ip]>> : ip \in DOMAIN refMap[k]}
          /\ Len(upstream) = Cardinality(DOMAIN refMap[k])

\* a removal took one of two members out and the other one stayed
C3_Witness ==
    /\ lastOp.name # ""
    /\ lastOp.port = EmptyPort
    /\ Len(lastOp.before) = 2
    /\ lastOp.before[1].IP = lastOp.ip
    /\ Len(LastUpstream) = 1
    /\ DOMAIN refMap[<<lastOp.type, lastOp.name>>] = {lastOp.before[2].IP}

\* C4: an upsert for an IP that is already a member under another port leaves
\* exactly one member for that IP, at the position the old one had, carrying
\* the new port, and leaves every other member where it was.
C4_RestartReplacesPort ==
    \A i \in 1..Len(lastOp.before) :
       (/\ lastOp.name # ""
        /\ lastOp.ip # ""
        /\ lastOp.port # EmptyPort
        /\ lastOp.before[i].IP = lastOp.ip
        /\ lastOp.before[i].Port # lastOp.port)
       => /\ Len(LastUpstream) = Len(lastOp.before)
          /\ LastUpstream[i] = [IP |-> lastOp.ip, Port |-> lastOp.port]
          /\ \A j \in 1..Len(lastOp.before) :
                j # i => /\ LastUpstream[j] = lastOp.before[j]
                         /\ LastUpstream[j].IP # lastOp.ip

\* the first of two members was re-registered with another port
C4_Witness ==
    /\ lastOp.name # ""
    /\ lastOp.port # EmptyPort
    /\ Len(lastOp.before) = 2
    /\ lastOp.before[1].IP = lastOp.ip
    /\ lastOp.before[1].Port # lastOp.port
    /\ LastUpstream[1].Port = lastOp.port

\* C5 as stated: after an operation that returned no error, the artifact of the
\* service it was applied to exists exactly when the service has a member.
C5_ArtifactIffMembers ==
    (lastOp.name # "" /\ ~lastOp.err)
       => (LastFile # Absent <=> LastUpstream # <<>>)

\* C5: after an operation that returned no error, the artifact of the service
\* it was applied to exists exactly when the service has a member, unless the
\* service is a stream service whose entry has SNI enabled, whose artifact
\* exists whatever its members.
C5_ArtifactIffMembersExceptSNI ==
    (lastOp.name # "" /\ ~lastOp.err)
       => IF LastIsSNI THEN LastFile # Absent
          ELSE (LastFile # Absent <=> LastUpstream # <<>>)

\* the last member of a service without SNI was removed and its artifact with it
C5_Witness ==
    /\ lastOp.name # ""
    /\ ~lastOp.err
    /\ ~LastIsSNI
    /\ lastOp.before # <<>>
    /\ lastOp.file # Absent
    /\ LastUpstream = <<>>
    /\ LastFile = Absent

C7_RenderFailureSkipsWrite ==
    (/\ lastOp.render = "failed"
     /\ lastOp.file.t \in {"http", "stream", "stream-sni"})
       => LastFile = lastOp.file

\* C8: a start, rename or rescan handled for a container that cannot be
\* inspected, or that has neither host networking nor an address of its own
\* and, on the bridge, no host-side binding of the declared port, ends without
\* an UpdateService call: registry and artifacts stay as they were and nothing
\* is reloaded.
C8_UnresolvableIsDropped ==
    [][\A t \in Threads :
          LET handled == IF t = "ev"
                         THEN /\ th[t].pc = "idle"
                              /\ queue # <<>>
                              /\ queue' = Tail(queue)
                              /\ Head(queue).Action \in {"start", "rename"}
                         ELSE th[t].pc = "start" /\ th'[t].pc # "start"
              container == containers[IF t = "ev" THEN Head(queue).ID ELSE t]
              service == GetServiceByContainerName(config, container.Name)
              nets == container.Networks
              unreachable ==
                 \/ container.State = "removed"
                 \/ /\ service # NoService
                    /\ "host" \notin DOMAIN nets
                    /\ \A n \in DOMAIN nets : n # "bridge" => nets[n] = ""
                    /\ \/ "bridge" \notin DOMAIN nets
                       \/ /\ ~HasBinding(container, MkPort(targetPort(service), "tcp"))
                          /\ ~HasBinding(container, MkPort(targetPort(service), "udp"))
          IN (handled /\ unreachable) => th'[t] = Idle]_vars

\* C9: a stop or die event is followed by a reload only if its UpdateService
\* call took a member out of the registry.
C9_ReloadOnlyAfterRemoval ==
    [][\A t \in Threads :
          (/\ UpdateStep(t)
           /\ th[t].act \in {"stop", "die"}
           /\ lastOp'.reload)
          => Len(UpstreamOf(httpConfigs', streamConfigs', th[t].svc.Type, th[t].svc.Name))
                < Len(UpstreamOf(httpConfigs, streamConfigs, th[t].svc.Type, th[t].svc.Name))]_vars

\* C10: a container without host networking that has an address on a
\* non-bridge network resolves to one of those addresses together with the
\* declared target port of the service.
C10_OwnAddressWithDeclaredPort ==
    LET nets == res.container.Networks
        own == {nets[n] : n \in {m \in DOMAIN nets : m # "bridge" /\ nets[m] # ""}}
    IN (res.done /\ "host" \notin DOMAIN nets /\ own # {})
          => /\ res.ip \in own
             /\ res.port.num = targetPort(res.service)

\* C11: a container attached to the default bridge only resolves to the
\* host-side port bound to the declared target port, TCP before UDP, and to
\* no port at all (so that it is not registered) when neither is bound.
C11_BridgePortIsHostBinding ==
    LET tcp == MkPort(targetPort(res.service), "tcp")
        udp == MkPort(targetPort(res.service), "udp")
    IN (res.done /\ DOMAIN res.container.Networks = {"bridge"})
          => res.port = IF HasBinding(res.container, tcp)
                        THEN MkPort(res.container.Ports[tcp][1], "tcp")
                        ELSE IF HasBinding(res.container, udp)
                        THEN MkPort(res.container.Ports[udp][1], "udp")
                        ELSE EmptyPort

\* C12: two resolutions of the same container for the same service, under the
\* same configuration, give the same IP and the same port.
C12_ResolutionDeterministic ==
    (res.done /\ res.done2) => (res.ip = res.ip2 /\ res.port = res.port2)

\* the artifact of every declared service is what its registry entry renders
\* to, and there is none where there is no entry
ArtifactsMatchRegistry ==
    \A i \in 1..Len(config.Services) :
       LET svc == config.Services[i]
       IN disk[PathOf(config, svc.Type, svc.Name)] =
             IF ~HasEntry(httpConfigs, streamConfigs, svc.Type, svc.Name) THEN Absent
             ELSE IF svc.Type = "http" THEN buildHTTPConfigContent(httpConfigs[svc.Name], TRUE)
             ELSE buildStreamConfigContent(streamConfigs[svc.Name], TRUE)

\* C13: at most one UpdateService call is inside the lock at a time; a call
\* leaves registry and disk exactly as one uninterrupted UpdateService applied
\* to the state it found when it took the lock; and whenever no call is in
\* progress every artifact corresponds to the member list in memory, which is
\* the replay of all calls in lock order.
C13_UpdateIsCriticalSection ==
    /\ [](Cardinality({t \in Threads : cs[t].stage # "out"}) <= 1)
    /\ []((\A t \in Threads : cs[t].stage = "out")
             => ArtifactsMatchRegistry /\ C3_RegistryRefinesMap)
    /\ [][\A t \in Threads :
             (cs[t].stage = "rendered" /\ cs'[t].stage = "out")
                => <<httpConfigs', streamConfigs', disk'>> = cs[t].expect]_vars

\* one goroutine is inside the lock with its content rendered while the other
\* waits to update the same service, which already has a member
C13_Witness ==
    /\ cs["ev"].stage = "rendered"
    /\ cs["ev"].content # DeleteMark
    /\ th["c1"].pc = "update"
    /\ cs["c1"].stage = "out"
    /\ th["c1"].svc = th["ev"].svc
    /\ \E i \in 1..Len(config.Services) :
          disk[PathOf(config, config.Services[i].Type, config.Services[i].Name)] # Absent

\* C14: a rescan whose list call succeeds starts one unit for every running
\* container; a step of a unit changes no other goroutine; a unit that ends
\* without an UpdateService call (inspect error, no or invalid service, no
\* address, recovered panic) changes no registry entry and no artifact; and
\* no goroutine is ever ended by another one's fault.
C14_RescanUnitsAreIsolated ==
    /\ [](\A t \in Threads : th[t].pc \in {"idle", "start", "update"})
    /\ [][/\ (rescan = "pending" /\ rescan' = "done")
                => \A c \in CIDs : containers[c].State = "running"
                                      => th'[c].pc = "start" /\ th'[c].cid = c
          /\ \A c \in CIDs :
                (th[c].pc \in {"start", "update"} /\ th'[c] # th[c])
                   => /\ \A t \in Threads \ {c} : th'[t] = th[t]
                      /\ (th'[c] = Idle /\ lastOp' = lastOp)
                            => UNCHANGED <<httpConfigs, streamConfigs, disk>>]_vars

\* the unit of c1 panicked and was recovered, and the unit of c2 registered
\* its container with the stream service
C14_Witness ==
    /\ recovered = {"c1"}
    /\ th["c2"].pc = "idle"
    /\ lastOp.act = "rescan"
    /\ lastOp.name = "db"
    /\ ~lastOp.err
    /\ "db" \in DOMAIN streamConfigs
    /\ Len(streamConfigs["db"].Upstream) = 1

\* C15: the event loop ends only after shutdown was requested; while it has
\* not been, the step that follows the backoff subscribes again; and every
\* backoff begun before shutdown leads to a new subscription or to shutdown,
\* after the first error as after any later one.
C15_StreamErrorResubscribes ==
    /\ [](th["ev"].pc = "stopped" => ctx = "cancelled")
    /\ [][(th["ev"].pc = "backoff" /\ th'["ev"].pc # "backoff" /\ ctx = "live")
             => (th'["ev"].pc = "idle" /\ stream'.state = "open")]_vars
    /\ \A n \in 1..MaxStreamErrors :
          (th["ev"].pc = "backoff" /\ stream.errors = n)
             ~> ((stream.state = "open" /\ th["ev"].pc = "idle") \/ ctx = "cancelled")

\* the stream has reported its second error, the loop has subscribed again
\* after each, and it has since received an event and is about to apply it
C15_Witness ==
    /\ stream.errors = 2
    /\ stream.state = "open"
    /\ ctx = "live"
    /\ th["ev"].pc = "update"

\* C16: a poll of a changed file that does not load (not YAML, or failing
\* Validate) leaves the active configuration, the registry, the artifacts,
\* the rescan and every unit as they were, and leaves the file still seen
\* as changed; after a failed load the file stays seen as changed, so every
\* following tick loads it again, until a load succeeds.
C16_FailedReloadKeepsConfig ==
    /\ [][(poll'.flip # poll.flip /\ ~Load(cfgFile).ok)
             => /\ poll'.result = "failed"
                /\ poll'.pc = "idle"
                /\ UNCHANGED <<config, httpConfigs, streamConfigs, disk, rescan, th>>
                /\ HasChanged(config', cfgFile')]_vars
    /\ []((poll.result = "failed" /\ poll.pc = "idle") => HasChanged(config, cfgFile))

\* the file was rewritten once, and the poller has failed to load it twice
C16_Witness ==
    /\ cfgFile.mtime = 1
    /\ ~Load(cfgFile).ok
    /\ poll.result = "failed"
    /\ poll.flip = FALSE
    /\ config = ConfigA

\* C17: the program starts with a rescan to run, and a rescan is started
\* only there and by a successful reload; the step that completes a
\* successful reload makes the loaded configuration the active one and
\* starts a rescan; a rescan whose list call succeeds starts the start path
\* for every container then running; each unit takes the start path under
\* the configuration active when it runs.
C17_ReloadSwapsAndRescans ==
    /\ rescan = "pending"
    /\ [][(rescan # "pending" /\ rescan' = "pending") => poll.pc = "copying"]_vars
    /\ [][(poll.pc = "copying" /\ poll'.pc = "idle")
             => /\ config' = poll.new
                /\ Validate(config')
                /\ config'.lastMod > config.lastMod
                /\ poll'.result = "ok"
                /\ rescan' = "pending"]_vars
    /\ [][(rescan = "pending" /\ rescan' = "done")
             => \A c \in CIDs :
                   containers[c].State = "running"
                      => th'[c] = [Idle EXCEPT !.pc = "start", !.act = "rescan", !.cid = c]]_vars
    /\ [][\A c \in CIDs :
             (th[c].pc = "start" /\ th'[c] # th[c])
                => th'[c] \in handleContainerStart(config, containers, "rescan", c)]_vars

\* the configuration was reloaded, the rescan that followed has listed the
\* containers, and the unit of c1 is about to register it for the service
\* that only the new configuration gives it, at the new host IP
C17_Witness ==
    /\ poll.result = "ok"
    /\ poll.pc = "idle"
    /\ config = [ConfigB EXCEPT !.lastMod = 1]
    /\ rescan = "done"
    /\ lastOp.act = "rescan"
    /\ lastOp.name = "api"
    /\ th["c1"].pc = "update"
    /\ th["c1"].svc = ConfigB.Services[2]
    /\ th["c1"].ip = "192.168.31.200"
    /\ th["c2"].pc = "start"

\* C18: what a handler or rescan unit has read from the active configuration
\* comes from one configuration: the service it matched is declared by, and
\* the host IP it resolved for a bridge container is that of, either the
\* configuration before the reload or the one after it.
C18_ConfigReplacedAsUnit ==
    \A t \in Threads :
       (th[t].pc = "update" /\ th[t].cid = "c1")
          => \E k \in {ConfigA, ConfigB} :
                /\ \E i \in 1..Len(k.Services) : th[t].svc = k.Services[i]
                /\ th[t].ip = k.Global.HostIP

\* C19: a goroutine about to call UpdateService holds a service of kind http
\* or stream with the required fields of its kind; an event (start, stop,
\* die, rename) or a rescan unit whose container matches a service that has
\* another kind or lacks such a field ends there, with the
\* registry, the artifacts and the record of the last UpdateService call and
\* reload unchanged; and those change only in the step of a goroutine that
\* was about to call UpdateService.
C19_InvalidServiceRejected ==
    /\ [](\A t \in Threads :
             th[t].pc = "update"
                => /\ th[t].svc.Type \in {"http", "stream"}
                   /\ th[t].svc.Type = "http"
                         => th[t].svc.Domain # "" /\ th[t].svc.Port # 0
                   /\ th[t].svc.Type = "stream"
                         => th[t].svc.ListenPort # 0 /\ th[t].svc.ContainerPort # 0)
    /\ [][LET Invalid(service) ==
                 \/ service.Type \notin {"http", "stream"}
                 \/ service.Type = "http" /\ (service.Domain = "" \/ service.Port = 0)
                 \/ service.Type = "stream"
                       /\ (service.ListenPort = 0 \/ service.ContainerPort = 0)
              Matched(id) == GetServiceByContainerName(config, containers[id].Name)
          IN /\ (/\ th["ev"].pc = "idle"
                 /\ queue # <<>>
                 /\ queue' = Tail(queue)
                 /\ Head(queue).Action \in {"start", "stop", "die", "rename"}
                 /\ containers[Head(queue).ID].State # "removed"
                 /\ Matched(Head(queue).ID) # NoService
                 /\ Invalid(Matched(Head(queue).ID)))
                   => /\ th'["ev"] = Idle
                      /\ UNCHANGED <<httpConfigs, streamConfigs, disk, lastOp>>
             /\ \A c \in CIDs :
                   (/\ th[c].pc = "start"
                    /\ th'[c] # th[c]
                    /\ containers[c].State # "removed"
                    /\ Matched(c) # NoService
                    /\ Invalid(Matched(c)))
                      => /\ th'[c] = Idle
                         /\ UNCHANGED <<httpConfigs, streamConfigs, disk, lastOp>>
             /\ <<httpConfigs, streamConfigs, disk, lastOp>>'
                   # <<httpConfigs, streamConfigs, disk, lastOp>>
                   => \E t \in Threads : th[t].pc = "update" /\ th'[t] = Idle]_vars

\* the rescan has run over two containers that never changed: the unit of
\* c1, whose service has the unknown type tcp, ended without a fault and
\* left no entry and no artifact, and the unit of c2 registered it
C19_Witness ==
    /\ config.Services[1].Type = "tcp"
    /\ rescan = "done"
    /\ ops = 0
    /\ recovered = {}
    /\ \A t \in Threads : th[t].pc = "idle"
    /\ containers["c1"].State = "running"
    /\ GetServiceByContainerName(config, containers["c1"].Name) = config.Services[1]
    /\ DOMAIN httpConfigs = {}
    /\ \A p \in Paths : p # PathOf(config, "stream", "db") => disk[p] = Absent
    /\ lastOp.name = "db"
    /\ "db" \in DOMAIN streamConfigs

\* C20 as stated: the service a handler goes on with declares exactly the
\* runtime's container name without its leading "/".
C20_MatchIsDeclaredName ==
    [][/\ \A c \in CIDs :
             (th[c].pc = "start" /\ th'[c].pc = "update")
                => th'[c].svc.ContainerName = TrimPrefix(containers[c].Name)
       /\ (th["ev"].pc = "idle" /\ th'["ev"].pc = "update")
             => th'["ev"].svc.ContainerName
                   = TrimPrefix(containers[Head(queue).ID].Name)]_vars

\* C20: names are compared after one leading "/" is taken off the runtime's
\* name and off the declared name.  The service a handler or rescan unit
\* goes on with is the first declared service whose name equals the
\* container's in that sense; when a valid one exists a stop or die event
\* goes on with it; and when none exists the start, stop, die and rename
\* handlers and the rescan units end with the registry, the artifacts and
\* the record of the last UpdateService call and reload unchanged.
C20_MatchUpToLeadingSlash ==
    [][LET Hits(id) ==
              {i \in 1..Len(config.Services) :
                  TrimPrefix(config.Services[i].ContainerName)
                     = TrimPrefix(containers[id].Name)}
           First(id) == CHOOSE i \in Hits(id) : \A j \in Hits(id) : i <= j
           Found(t, id) ==
              th'[t].pc = "update"
                 => Hits(id) # {} /\ th'[t].svc = config.Services[First(id)]
           NotOurs(t, id) ==
              Hits(id) = {}
                 => /\ th'[t] = Idle
                    /\ UNCHANGED <<httpConfigs, streamConfigs, disk, lastOp>>
       IN /\ \A c \in CIDs :
                (th[c].pc = "start" /\ th'[c] # th[c] /\ containers[c].State # "removed")
                   => Found(c, c) /\ NotOurs(c, c)
          /\ (/\ th["ev"].pc = "idle"
              /\ queue # <<>>
              /\ queue' = Tail(queue)
              /\ Head(queue).Action \in {"start", "stop", "die", "rename"}
              /\ containers[Head(queue).ID].State # "removed")
                => /\ Found("ev", Head(queue).ID)
                   /\ NotOurs("ev", Head(queue).ID)
                   /\ (/\ Head(queue).Action \in {"stop", "die"}
                       /\ Hits(Head(queue).ID) # {}
                       /\ ValidateService(config.Services[First(Head(queue).ID)]))
                         => th'["ev"].pc = "update"]_vars

\* the stop of a container the runtime calls /my-app is about to be applied
\* to the service declared with container_name "/my-app"
C20_Witness ==
    /\ th["ev"].pc = "update"
    /\ th["ev"].act \in {"stop", "die"}
    /\ th["ev"].cid = "c1"
    /\ th["ev"].svc.ContainerName = <<"/", "my-app">>
    /\ containers["c1"].Name = <<"/", "my-app">>

\* C21: once a reload has succeeded and the rescan after it has run to its
\* end, with nothing left to do, the registry holds entries and the disk
\* holds artifacts only of services the active configuration declares.
C21_DeletedServiceCleaned ==
    (/\ poll.pc = "idle"
     /\ poll.result = "ok"
     /\ ~HasChanged(config, cfgFile)
     /\ rescan = "done"
     /\ \A t \in Threads : th[t].pc = "idle")
       => \A name \in {"api", "db"} :
             (\A i \in 1..Len(config.Services) : config.Services[i].Name # name)
                => /\ name \notin DOMAIN httpConfigs
                   /\ name \notin DOMAIN streamConfigs
                   /\ disk[<<"conf.d", name>>] = Absent

\* C22: once a reload has succeeded and the rescan after it has run to its
\* end, the artifact of every declared service that has a registry entry
\* and a running container carries the domain and path, or the listen
\* port, that the active configuration declares for it.
C22_ArtifactUsesNewParameters ==
    (/\ poll.pc = "idle"
     /\ poll.result = "ok"
     /\ ~HasChanged(config, cfgFile)
     /\ rescan = "done"
     /\ lastOp.act = "rescan"
     /\ \A t \in Threads : th[t].pc = "idle")
       => \A i \in 1..Len(config.Services) :
             LET service == config.Services[i]
                 file == disk[PathOf(config, service.Type, service.Name)]
             IN /\ (service.Type = "http" /\ service.Name \in DOMAIN httpConfigs
                       /\ file # Absent)
                      => file.Domain = service.Domain /\ file.Path = service.Path
                /\ (service.Type = "stream" /\ service.Name \in DOMAIN streamConfigs
                       /\ file # Absent)
                      => file.ListenPort = service.ListenPort

\* C23: a reload command that never returns stalls only the goroutine that
\* invoked it: a lifecycle event that arrives while a command hangs finds
\* the event loop free to handle it.
C23_HangStallsOnlyItsPath ==
    (queue # <<>> /\ \E t \in Threads : th[t].pc = "hung") => th["ev"].pc # "hung"

\* C24: the event loop and the poll loop stop only once the context is
\* cancelled; after the cancellation no rescan unit is started; and a unit
\* in flight is left to run: its next step is its own, to its UpdateService
\* call or to its end.
C24_ShutdownIsCooperative ==
    /\ [](th["ev"].pc = "stopped" \/ poll.pc = "stopped" => ctx # "live")
    /\ [][ctx # "live"
             => \A c \in CIDs : th[c].pc = "idle" => th'[c].pc # "start"]_vars
    /\ [][\A c \in CIDs :
             (th[c].pc \in {"start", "update"} /\ th'[c] # th[c])
                => th'[c].pc \in {"update", "idle"}]_vars

\* C25: an UpdateService call whose write or delete of the artifact fails
\* returns an error, leaves the disk as it was and keeps the entry with the
\* member set as the call changed it; and every call that returns without
\* error leaves the artifact of its service equal to what its entry renders
\* to, or absent when the entry is gone.
C25_NoRollbackOnWriteFailure ==
    /\ [][(UpdateStep("ev") /\ ~ioOK /\ lastOp'.err)
             => /\ disk' = disk
                /\ HasEntry(httpConfigs', streamConfigs', lastOp'.type, lastOp'.name)
                /\ UpstreamOf(httpConfigs', streamConfigs', lastOp'.type, lastOp'.name)
                      = NewUpstream(lastOp'.before, lastOp'.ip, lastOp'.port)]_vars
    /\ [][(UpdateStep("ev") /\ ~lastOp'.err)
             => LastFile' =
                   IF lastOp'.type = "http" /\ lastOp'.name \in DOMAIN httpConfigs'
                   THEN buildHTTPConfigContent(httpConfigs'[lastOp'.name], tplOK)
                   ELSE IF lastOp'.type = "stream" /\ lastOp'.name \in DOMAIN streamConfigs'
                   THEN buildStreamConfigContent(streamConfigs'[lastOp'.name], tplOK)
                   ELSE Absent]_vars

\* the registry is ahead of the disk: the last call failed on an unwritable
\* directory, the entry holds two members and the artifact lists one
C25_Witness ==
    /\ ~ioOK
    /\ lastOp.err
    /\ Len(UpstreamOf(httpConfigs, streamConfigs, lastOp.type, lastOp.name)) = 2
    /\ Len(lastOp.before) = 1
    /\ LastFile \notin {Absent, Stale}
    /\ Len(LastFile.Servers) = 1

\* C26: in every state and for every container, the rename handler comes to
\* the same end as the start handler (nothing, or the same UpdateService
\* call: same service, address and port); and the UpdateService call of a
\* rename event takes no address out of any service's member set and
\* removes no artifact.
C26_RenameIsStart ==
    /\ [](\A id \in CIDs :
             {[x EXCEPT !.act = ""] :
                 x \in handleContainerRename(config, containers, "rename", id)}
           = {[x EXCEPT !.act = ""] :
                 x \in handleContainerStart(config, containers, "start", id)})
    /\ [][(UpdateStep("ev") /\ lastOp'.act = "rename")
             => /\ \A type \in {"http", "stream"}, name \in {"api", "db"} :
                      LET old == UpstreamOf(httpConfigs, streamConfigs, type, name)
                          new == UpstreamOf(httpConfigs', streamConfigs', type, name)
                      IN \A i \in 1..Len(old) : \E j \in 1..Len(new) : new[j].IP = old[i].IP
                /\ \A p \in Paths : disk[p] # Absent => disk'[p] # Absent]_vars

\* c2, registered for db by the rescan, was renamed my-app once c1 had given
\* the name up; the rename event registered it for api, and db still holds it
C26_Witness ==
    /\ lastOp.act = "rename"
    /\ lastOp.name = "api"
    /\ ~lastOp.err
    /\ containers["c2"].Name = <<"/", "my-app">>
    /\ containers["c1"].Name = <<"/", "c1">>
    /\ "db" \in DOMAIN streamConfigs
    /\ "api" \in DOMAIN httpConfigs
    /\ \E i \in 1..Len(streamConfigs["db"].Upstream) :
          streamConfigs["db"].Upstream[i].IP = lastOp.ip
    /\ \E j \in 1..Len(httpConfigs["api"].Upstream) :
          httpConfigs["api"].Upstream[j].IP = lastOp.ip

\* C27: every member in the registry has an address and a port with a
\* number and a protocol; and a goroutine at its UpdateService call holds
\* both an address and a port when it handles a start, a rename or a rescan
\* unit, and neither when it handles a stop or die.
C27_MembersAreComplete ==
    /\ \A type \in {"http", "stream"}, name \in {"api", "db"} :
          LET upstream == UpstreamOf(httpConfigs, streamConfigs, type, name)
          IN \A i \in 1..Len(upstream) :
                /\ upstream[i].IP # ""
                /\ upstream[i].Port # EmptyPort
                /\ upstream[i].Port.num # 0
                /\ upstream[i].Port.proto # ""
    /\ \A t \in Threads :
          th[t].pc = "update"
             => IF th[t].act \in {"stop", "die"}
                THEN th[t].ip = "" /\ th[t].port = EmptyPort
                ELSE th[t].ip # "" /\ th[t].port # EmptyPort

\* c2 was started and stopped after the rescan; its start event was handled
\* when it had no address any more and was dropped: db was never registered
C27_Witness ==
    /\ ops = 2
    /\ rescan = "done"
    /\ containers["c2"].State = "exited"
    /\ GetServiceByContainerName(config, containers["c2"].Name) # NoService
    /\ ValidateService(GetServiceByContainerName(config, containers["c2"].Name))
    /\ getContainerIP(config, containers["c2"]) = {""}
    /\ queue = <<[Action |-> "stop", ID |-> "c2"]>>
    /\ th["ev"].pc = "idle"
    /\ lastOp.name # "db"
    /\ "db" \notin DOMAIN streamConfigs

\* C28 as stated: main ends the process with log.Fatalf only when the first
\* load of the configuration fails.
C28_OnlyFirstLoadIsFatal ==
    [][(mainPc # "fatal" /\ mainPc' = "fatal") => mainPc = "load"]_vars

\* C28: main ends the process with log.Fatalf only during startup, when the
\* log file cannot be set up, when the first load of the configuration
\* fails (and then always), or when the Docker client cannot be created;
\* once the program runs, no error ends it: main stays at its wait for a
\* signal, and the event loop and the poller stay alive.
C28_OnlyStartupIsFatal ==
    /\ [][(mainPc # "fatal" /\ mainPc' = "fatal")
             => mainPc \in {"initLogger", "load", "new"}]_vars
    /\ [][(mainPc = "load" /\ mainPc' # "load")
             => (mainPc' = "fatal" <=> ~Load(cfgFile).ok)]_vars
    /\ [][mainPc = "running" => mainPc' = "running"]_vars
    /\ [](mainPc = "running"
             => th["ev"].pc \in {"idle", "update", "backoff"} /\ poll.pc = "idle")

\* the program runs after the event stream broke and was subscribed again,
\* a later reload failed, a write of an artifact failed and the container
\* was removed
C28_Witness ==
    /\ mainPc = "running"
    /\ stream = [state |-> "open", errors |-> 1]
    /\ poll.result = "failed"
    /\ lastOp.err
    /\ containers["c1"].State = "removed"
    /\ rescan \in {"done", "failed"}

\* C29 as stated: between registry operations no entry of the registry, http
\* or stream, has an empty member set.
C29_NoEmptyEntry ==
    /\ \A n \in DOMAIN httpConfigs : httpConfigs[n].Upstream # <<>>
    /\ \A n \in DOMAIN streamConfigs : streamConfigs[n].Upstream # <<>>

\* C29: between registry operations an entry with an empty member set is in
\* the registry only when it is a stream entry with SNI enabled, or when the
\* last operation on its service returned an error because the artifact,
\* still on disk, could not be deleted; every other entry whose member set
\* became or was found empty was dropped by the operation that emptied it.
C29_EmptyEntryOnlySNIOrFailedDelete ==
    /\ \A n \in DOMAIN httpConfigs :
          httpConfigs[n].Upstream = <<>>
             => /\ lastOp.err
                /\ lastOp.name = n
                /\ lastOp.type = "http"
                /\ disk[<<config.Global.NginxConfigDir, n>>] # Absent
    /\ \A n \in DOMAIN streamConfigs :
          streamConfigs[n].Upstream = <<>>
             => \/ streamConfigs[n].EnableSNI
                \/ /\ lastOp.err
                   /\ lastOp.name = n
                   /\ lastOp.type = "stream"
                   /\ disk[<<config.Global.StreamConfigDir, n>>] # Absent

\* a delete that failed left an entry without members; the directory became
\* writable, the next removal succeeded and dropped the entry and the file
C29_Witness ==
    /\ lastOp.name # ""
    /\ ~lastOp.err
    /\ lastOp.entry
    /\ lastOp.before = <<>>
    /\ lastOp.file # Absent
    /\ ~HasEntry(httpConfigs, streamConfigs, lastOp.type, lastOp.name)
    /\ LastFile = Absent

\* C30 as stated: a poll tick attempts a reload exactly when the file can be
\* stat'ed and its modification time differs from the stored one.
C30_ReloadOnAnyMismatch ==
    [][(poll.pc = "idle" /\ poll' # poll)
          => (poll'.flip # poll.flip
                 <=> (cfgFile.exists /\ cfgFile.mtime # config.lastMod))]_vars

\* C31: once every pending event has been handled (no event waits, no
\* goroutine is at work, the rescan has run), every member of every service
\* is the address that a running container matching the service resolves to.
C31_MembersAreRunningContainers ==
    (/\ queue = <<>>
     /\ rescan # "pending"
     /\ \A t \in Threads : th[t].pc = "idle")
       => \A i \in 1..Len(config.Services) :
             LET service == config.Services[i]
                 upstream == UpstreamOf(httpConfigs, streamConfigs,
                                        service.Type, service.Name)
             IN \A k \in 1..Len(upstream) :
                   \E c \in CIDs :
                      /\ containers[c].State = "running"
                      /\ GetServiceByContainerName(config, containers[c].Name) = service
                      /\ upstream[k].IP \in getContainerIP(config, containers[c])
                      /\ upstream[k].Port = getContainerPort(containers[c], service)

\* C32: when a rescan unit and the event loop have both finished with a
\* container that has stopped (the unit has made its UpdateService call, the
\* die/stop events have been handled, in either order), the stop being the
\* only thing the runtime did, and no running container matches the
\* container's service, the service has no member.
C32_RescanAndStopLeaveNoMember ==
    \A c \in CIDs :
       LET service == GetServiceByContainerName(config, containers[c].Name)
       IN (/\ containers[c].State = "exited"
           /\ service # NoService
           /\ \A d \in CIDs : containers[d].State = "running"
                  => GetServiceByContainerName(config, containers[d].Name) # service
           /\ rescan = "done"
           /\ queue = <<>>
           /\ \A t \in Threads : th[t].pc = "idle"
           /\ lastOp.name = service.Name
           /\ lastOp.act \in {"rescan", "stop", "die"}
           /\ ops = 1)
             => UpstreamOf(httpConfigs, streamConfigs, service.Type, service.Name) = <<>>

\* C33: the mutex is only ever held by a goroutine that is inside
\* UpdateService, also after a rescan unit has faulted inside it and been
\* recovered; and every UpdateService call a goroutine has reached returns
\* or unwinds, and every UpdateConfig call the poller has reached returns.
C33_FaultReleasesLock ==
    /\ [](mutex # "" => /\ cs[mutex].stage \in {"locked", "rendered"}
                        /\ th[mutex].pc = "update")
    /\ \A t \in LockThreads : (th[t].pc = "update") ~> (th[t].pc = "idle")
    /\ (poll.pc = "updateConfig") ~> (poll.pc = "idle")

\* the unit faulted inside UpdateService and was recovered; the event loop
\* now holds the mutex the unit held, and the poller waits for it
C33_Witness ==
    /\ recovered = {"c1"}
    /\ th["c1"].pc = "idle"
    /\ mutex = "ev"
    /\ cs["ev"].stage = "rendered"
    /\ poll.pc = "updateConfig"

\* C34: no modification of the file is permanently missed: whenever the
\* poller waits for a tick and the file holds a loadable configuration other
\* than the active one, the file still counts as changed, so that a later
\* tick loads it.
C34_NoModificationMissed ==
    (/\ poll.pc = "idle"
     /\ Load(cfgFile).ok
     /\ <<cfgFile.Global, cfgFile.Services>> # <<config.Global, config.Services>>)
       => HasChanged(config, cfgFile)

\* C35: once the event loop has subscribed again after a stream error and
\* has handled every event it was sent, a container that is running, whether
\* it was started before, during or after the disconnection, is a member of
\* its service at the address it resolves to.
C35_DisconnectedStartIsReflected ==
    LET service == GetServiceByContainerName(config, containers["c1"].Name)
        upstream == UpstreamOf(httpConfigs, streamConfigs, service.Type, service.Name)
    IN (/\ stream.errors > 0
        /\ stream.state = "open"
        /\ ctx = "live"
        /\ th["ev"].pc = "idle"
        /\ queue = <<>>
        /\ containers["c1"].State = "running"
        /\ service # NoService)
          => \E k \in 1..Len(upstream) :
                /\ upstream[k].IP \in getContainerIP(config, containers["c1"])
                /\ upstream[k].Port = getContainerPort(containers["c1"], service)

\* C36: when the event loop applies a stop or die event and the last
\* UpdateService call before it was the one of a stop or die event of the
\* same service (nothing has touched the registry in between), the registry
\* and the artifacts are after the second handling exactly as the first
\* left them.
C36_StopTwiceIsStopOnce ==
    [][(/\ UpdateStep("ev")
        /\ th["ev"].act \in {"stop", "die"}
        /\ lastOp.act \in {"stop", "die"}
        /\ lastOp.name = th["ev"].svc.Name
        /\ lastOp.type = th["ev"].svc.Type)
          => UNCHANGED <<httpConfigs, streamConfigs, disk>>]_vars

\* the service held two addresses when the container was stopped; the die
\* and the stop event have both been applied and both addresses and the
\* artifact are as they were
C36_Witness ==
    /\ ops = MaxDockerOps + 1
    /\ containers["c1"].State = "exited"
    /\ queue = <<>>
    /\ th["ev"].pc = "idle"
    /\ lastOp.act = "stop"
    /\ ~lastOp.err
    /\ Len(lastOp.before) = 2
    /\ LastUpstream = lastOp.before
    /\ LastFile = lastOp.file
    /\ LastFile # Absent

====
